---------------------------- MODULE Spec2Model ----------------------------
(***************************************************************************)
(* A model of the staarb event-driven trading engine:                      *)
(*   - EventBus (core/bus/event_bus.py): registry, publish, gather         *)
(*   - Position / Portfolio bookkeeping (portfolio/position.py,            *)
(*     portfolio/portfolio.py) driven by OrderExecutor.publish_transactions*)
(*   - Portfolio.publish_orders / filter_order                             *)
(*   - the market-data tick of the backtest wiring (core/bus/subscribers)  *)
(*                                                                         *)
(* asyncio is modelled as cooperative tasks: a coroutine runs atomically   *)
(* from one suspension point (an await that really yields: gather over     *)
(* created tasks, an exchange call, Event.wait on a cleared flag) to the   *)
(* next, and any runnable task may be the next one to run.                 *)
(* Floats are modelled as exact rationals / integers of a base unit.       *)
(***************************************************************************)
EXTENDS Integers, Sequences, FiniteSets, TLC

VARIABLES
    \* ---- EventBus ----
    handlers,          \* EventBus._handlers: event type -> list of handlers
    pub,               \* the publish call being followed
    tasks,             \* the handler tasks that publish created
    calls,             \* handler invocations made by the last dispatch
    \* ---- Portfolio / Position ----
    positions,         \* every Position object ever created, by position_id
    open_positions,    \* Portfolio.open_positions: symbol -> position_id
    closed_positions,  \* Portfolio.closed_positions: symbol -> list of ids
    upd,               \* Portfolio.update_position calls (tasks) of the batch
    storage,           \* TRUE iff a PositionEvent subscriber is registered
    nTxn,              \* transactions created so far
    \* ---- Portfolio.publish_orders / filter_order ----
    symbols,           \* Portfolio.symbols: the tracked symbols
    po,                \* the publish_orders call being followed
    flt,               \* its filter_order tasks
    published,         \* OrderCreatedEvents published by that call
    \* ---- one market-data tick of the backtest wiring ----
    tick,              \* number of MarketDataEvents published so far
    suspends,          \* TRUE iff client.get_margin_account yields to the loop
    balance,           \* free quote balance held by the client
    quote_listed,      \* TRUE iff the client's userAssets has an entry for the quote
    account_size,      \* Portfolio.account_size: <<>> is None, <<v>> is v
    account_updated,   \* Portfolio._account_updated: the Event's flag
    signal,            \* decision of the SignalEvent of this tick
    pcS,               \* task of Strategy.on_market_data
    pcU,               \* task of Portfolio.update_account_size
    pcP,               \* task of Portfolio.publish_orders
    written_at,        \* history: tick whose update run wrote account_size
    sizings,           \* history: the leverage_sizing calls made
    \* ---- BollingerBand (z-scores and thresholds in tenths) ----
    position,          \* BollingerBand.position
    entry_threshold,   \* BollingerBand.entry_threshold
    exit_threshold,    \* BollingerBand.exit_threshold
    long_only,         \* BollingerBand.long_only
    emitted,           \* <<>> or <<[zscore, signal]>>: the last generate_signal
                       \* call not yet followed by an update_position
    op,                \* history: the last call made on the generator
    rounds,            \* history: the confirmations, while feedback holds
    feedback,          \* history: TRUE while every update_position so far was
                       \* given the signal emitted just before it
    \* ---- StatisticalArbitrage ----
    is_fitted,         \* StatisticalArbitrage.is_fitted
    current_signal,    \* StatisticalArbitrage.current_signal
    signal_event,      \* <<>> or <<e>>: the last SignalEvent published
    confirmed,         \* history: <<>> or the last Strategy.update_position
    model_calls,       \* history: the calls made on the signal model
    \* ---- Portfolio._prepare_exit_orders ----
    exit_orders,       \* <<>> or <<orders>>: the result of the last call, kept
                       \* until the positions change
    \* ---- Portfolio._prepare_entry_orders ----
    entry_in,          \* the signal, its hedge ratios and the aggregate size
    entry_out,         \* <<>> or <<[orders, err]>>: the result of the call
    \* ---- OrderExecutor.execute_order ----
    ex,                \* the execute_order call: its position, orders and error
    sub,               \* one create_margin_order task per order
    tce,               \* TransactionClosedEvents published by the call, in order
    \* ---- Transaction(...) ----
    txn_in,            \* the arguments of the constructor
    txn_out,           \* <<>> or <<error>>: "none" when the object was built
    \* ---- Portfolio.add_symbol ----
    symbol_set,        \* Portfolio.symbols as Symbol objects: name and other fields
    add_call,          \* <<>> or <<the last add_symbol call>>: argument, set before, error
    \* ---- the backtest command ----
    cli,               \* position, options, local variable client, pending exception, exit status
    conn,              \* the exchange client's connection: "none", "open" or "closed"
    \* ---- a Position used directly ----
    pobj,              \* the Position object
    pcall,             \* <<>> or <<the last update_position call>>: event, position before, error
    \* ---- MockClient balances ----
    asset_balance,     \* MockClient._asset_balance: asset -> [free, borrowed]
    mock_call,         \* <<>> or <<the last pay or gain call>>: op, asset, amount, balances before
    net,               \* per asset: the amounts gained so far minus the amounts paid
    \* ---- TradingStorage.save_position on the Position used directly ----
    handed,            \* transactions passed to _add_transaction, in call order
    committed,         \* transactions of committed database sessions
    save_call,         \* <<>> or <<the last save_position call>>: outcome, cursor and history length before
    \* ---- the backtest wiring, one tick at a time ----
    wire,              \* the tick in progress: pc, confirmations pending, last executed entry
    \* ---- JohansenCointegrationModel ----
    jm,                \* _hedge_ratio, _num_assets, _half_life_window, _vec_hedge_ratio
    jm_call,           \* <<>> or <<the last fit or estimate call>>
    \* ---- the tasks of the backtest loop ----
    loop_tasks,        \* the tasks created since the last MarketDataEvent, in creation order
    event_log,         \* the events published since the last MarketDataEvent, in order
    loop_tick,         \* MarketDataEvents published so far
    driver,            \* the backtest loop: "idle", "awaiting" or "finished"
    left_running,      \* tasks of the earlier tick unfinished when the driver published
    with_storage,      \* TRUE iff storage.save_position is subscribed to PositionEvent
    \* ---- MockClient.get_mock_data ----
    mock_data,         \* MockClient.mock_data: symbol -> number of rows (row k is k)
    len_data,          \* MockClient._len_data
    current_pt,        \* MockClient._current_pt
    mock_gen           \* the generator: pc, limit, pointer at its creation, windows yielded

busVars == <<handlers, pub, tasks, calls>>
posVars == <<positions, open_positions, closed_positions, upd, storage, nTxn>>
ordVars == <<symbols, po, flt, published>>
tickVars == <<tick, suspends, balance, quote_listed, account_size, account_updated, signal,
              pcS, pcU, pcP, written_at, sizings>>
sigVars == <<position, entry_threshold, exit_threshold, long_only, emitted,
             op, rounds, feedback>>
stratVars == <<is_fitted, current_signal, signal_event, confirmed, model_calls>>
exitVars == <<exit_orders>>
entryVars == <<entry_in, entry_out>>
execVars == <<ex, sub, tce>>
txnVars == <<txn_in, txn_out>>
addVars == <<symbol_set, add_call>>
cliVars == <<cli, conn>>
pobjVars == <<pobj, pcall>>
mockVars == <<asset_balance, mock_call, net>>
saveVars == <<handed, committed, save_call>>
wireVars == <<wire>>
jmVars == <<jm, jm_call>>
loopVars == <<loop_tasks, event_log, loop_tick, driver, left_running, with_storage>>
dataVars == <<mock_data, len_data, current_pt, mock_gen>>
vars == <<handlers, pub, tasks, calls,
          positions, open_positions, closed_positions, upd, storage, nTxn,
          symbols, po, flt, published,
          tick, suspends, balance, quote_listed, account_size, account_updated, signal,
          pcS, pcU, pcP, written_at, sizings,
          position, entry_threshold, exit_threshold, long_only, emitted,
          op, rounds, feedback,
          is_fitted, current_signal, signal_event, confirmed, model_calls,
          exit_orders, entry_in, entry_out, ex, sub, tce, txn_in, txn_out, symbol_set, add_call, cli, conn, pobj, pcall, asset_balance, mock_call, net, handed, committed, save_call, wire, jm, jm_call, loop_tasks, event_log, loop_tick, driver, left_running, with_storage, mock_data, len_data, current_pt, mock_gen>>

--------------------------------------------------------------------------
(* Generic helpers *)

Abs(x) == IF x < 0 THEN -x ELSE x

RECURSIVE Gcd(_, _)
Gcd(a, b) == IF b = 0 THEN a ELSE Gcd(b, a % b)

\* An exact rational n/d in lowest terms with d > 0 (a float, idealised).
Rat(n, d) ==
    LET s == IF d < 0 THEN -1 ELSE 1
        g == Gcd(Abs(n), Abs(d))
    IN  [n |-> (s * n) \div g, d |-> (s * d) \div g]

RatSub(a, b) == Rat(a.n * b.d - b.n * a.d, a.d * b.d)
RatMulInt(a, k) == Rat(a.n * k, a.d)
RatPos(a) == a.n > 0
Zero == Rat(0, 1)

\* A function with key k removed / added (Python dict pop and item assignment).
DictPop(f, k) == [x \in (DOMAIN f) \ {k} |-> f[x]]
DictSet(f, k, v) == [x \in (DOMAIN f) \cup {k} |-> IF x = k THEN v ELSE f[x]]
EmptyDict == <<>>

--------------------------------------------------------------------------
(* EventBus: core/bus/event_bus.py *)

EventTypes == {"MarketDataEvent", "SignalEvent"}
Handlers == {"h1", "h2"}
Data == {"e1", "e2"}
MaxSubs == 2       \* registrations per event type

Settled(t) == t.st \in {"done", "failed", "cancelled"}
AllSettled(ts) == \A i \in 1..Len(ts) : Settled(ts[i])

\* EventBus.subscribe: create the list on first use, append the handler.
Subscribe(t, h) ==
    /\ pub.state # "awaiting" /\ AllSettled(tasks)
    /\ IF t \in DOMAIN handlers THEN Len(handlers[t]) < MaxSubs ELSE TRUE
    /\ handlers' = IF t \in DOMAIN handlers
                     THEN [handlers EXCEPT ![t] = Append(@, h)]
                     ELSE DictSet(handlers, t, <<h>>)
    /\ UNCHANGED <<pub, tasks, calls>>

\* tasks = [create_task(handler(data)) for handler in cls._handlers[event_type]]
CreateTasks(hs, e) ==
    [i \in 1..Len(hs) |-> [handler |-> hs[i], data |-> e, st |-> "ready"]]

\* A variant of publish that registers the event type it is asked for
\* (dict.setdefault / defaultdict lookup instead of the membership test).
PublishSetDefault(t, e) ==
    /\ pub.state # "awaiting" /\ AllSettled(tasks)
    /\ handlers' = IF t \in DOMAIN handlers THEN handlers
                   ELSE DictSet(handlers, t, <<>>)
    /\ tasks' = IF t \in DOMAIN handlers THEN CreateTasks(handlers[t], e) ELSE <<>>
    /\ calls' = IF t \in DOMAIN handlers
                  THEN [i \in 1..Len(handlers[t]) |-> <<handlers[t][i], e>>]
                  ELSE <<>>
    /\ pub' = [type |-> t, data |-> e,
               state |-> IF t \in DOMAIN handlers THEN "awaiting" ELSE "returned"]

\* EventBus.publish up to its await: with no entry for the type the coroutine
\* finishes at once without yielding; otherwise one task per registered
\* handler is created, in list order, and the publisher waits in gather.
Publish(t, e) ==
    /\ pub.state # "awaiting" /\ AllSettled(tasks)
    /\ IF t \in DOMAIN handlers
         THEN /\ tasks' = CreateTasks(handlers[t], e)
              /\ calls' = [i \in 1..Len(handlers[t]) |-> <<handlers[t][i], e>>]
              /\ pub' = [type |-> t, data |-> e, state |-> "awaiting"]
         ELSE /\ pub' = [type |-> t, data |-> e, state |-> "returned"]
              /\ UNCHANGED <<tasks, calls>>
    /\ UNCHANGED handlers

\* A handler task runs from its start to its first suspension point or end.
TaskRun(i) ==
    /\ i \in 1..Len(tasks) /\ tasks[i].st = "ready"
    /\ \E o \in {"done", "failed", "suspended"} :
          tasks' = [tasks EXCEPT ![i].st = o]
    /\ UNCHANGED <<handlers, pub, calls>>

\* A suspended handler task is resumed and runs to its end.
TaskResume(i) ==
    /\ i \in 1..Len(tasks) /\ tasks[i].st = "suspended"
    /\ \E o \in {"done", "failed"} : tasks' = [tasks EXCEPT ![i].st = o]
    /\ UNCHANGED <<handlers, pub, calls>>

\* gather that is satisfied by the first child to finish (asyncio.wait with
\* FIRST_COMPLETED).
GatherFirst(ts) ==
    IF \E i \in 1..Len(ts) : ts[i].st = "failed" THEN "raised"
    ELSE IF \E i \in 1..Len(ts) : ts[i].st = "done" THEN "returned"
    ELSE "awaiting"

\* await gather(*tasks) with return_exceptions left False: the outer future
\* takes the first exception a child raises, and the result once all children
\* are done.
Gather(ts) ==
    IF \E i \in 1..Len(ts) : ts[i].st = "failed" THEN "raised"
    ELSE IF \A i \in 1..Len(ts) : ts[i].st = "done" THEN "returned"
    ELSE "awaiting"

\* The publisher is resumed by gather's outer future.
PublishWake ==
    /\ pub.state = "awaiting"
    \* the loop runs callbacks in FIFO order: every child has had its first
    \* step before a completion callback can resume the publisher
    /\ \A i \in 1..Len(tasks) : tasks[i].st # "ready"
    /\ Gather(tasks) # "awaiting"
    /\ pub' = [pub EXCEPT !.state = Gather(tasks)]
    \* gather cancels no child when one of them raises
    /\ UNCHANGED <<handlers, tasks, calls>>

BusInit ==
    /\ handlers = EmptyDict
    /\ pub = [type |-> "MarketDataEvent", data |-> "e1", state |-> "idle"]
    /\ tasks = <<>>
    /\ calls = <<>>

--------------------------------------------------------------------------
(* Domain types: core/types.py, core/enums.py *)

SymbolNames == {"BTCUSDC", "ETHUSDC"}
BaseAsset(sym) == IF sym = "BTCUSDC" THEN "BTC" ELSE "ETH"
QuoteAsset(sym) == "USDC"
OrderSides == {"BUY", "SELL"}

\* Fill._set_base_quantity: the commission comes off the base leg only when
\* it was charged in the base asset.
FillBaseQuantity(f) ==
    IF BaseAsset(f.symbol) = f.commission_asset
      THEN f.quantity - f.commission ELSE f.quantity

\* Fill._set_quote_quantity: likewise for the quote leg.
FillQuoteQuantity(f) ==
    IF QuoteAsset(f.symbol) = f.commission_asset
      THEN f.price * f.quantity - f.commission ELSE f.price * f.quantity

RECURSIVE SumBase(_)
SumBase(fills) ==
    IF fills = <<>> THEN 0 ELSE FillBaseQuantity(Head(fills)) + SumBase(Tail(fills))

RECURSIVE SumQuote(_)
SumQuote(fills) ==
    IF fills = <<>> THEN 0 ELSE FillQuoteQuantity(Head(fills)) + SumQuote(Tail(fills))

\* The fill lists an exchange response may carry for a symbol: one fill with
\* the commission charged in the base asset, or two fills, one with the
\* commission in a third asset and one with it in the quote asset.
FillChoices(sym) ==
    LET f1 == [symbol |-> sym, price |-> 2, quantity |-> 1,
               commission |-> 0, commission_asset |-> "BNB"]
        f2 == [symbol |-> sym, price |-> 3, quantity |-> 2,
               commission |-> 1, commission_asset |-> BaseAsset(sym)]
        f3 == [symbol |-> sym, price |-> 2, quantity |-> 2,
               commission |-> 1, commission_asset |-> QuoteAsset(sym)]
    IN  {<<f2>>, <<f1, f3>>}

\* OrderExecutor.create_transaction: the Transaction of an order and the
\* fills of its response; transact_time and id are taken from a counter.
MakeTransaction(sym, side, fills, k) ==
    [id |-> k, order |-> [symbol |-> sym, side |-> side],
     fills |-> fills, transact_time |-> k]

\* A TransactionClosedEvent tagged LONG whatever the side of its order.
MakeClosedEventAlwaysLong(tx) == [transaction |-> tx, position_direction |-> "LONG"]

\* OrderExecutor.publish_transactions: LONG for a BUY order, SHORT for SELL.
MakeClosedEvent(tx) ==
    [transaction |-> tx,
     position_direction |-> IF tx.order.side = "BUY" THEN "LONG" ELSE "SHORT"]

--------------------------------------------------------------------------
(* Position: portfolio/position.py *)

MaxTxns == 3       \* transactions in a run
MaxBatch == 2      \* transactions published concurrently by one batch

\* Position.__init__
NewPosition(sym, pid, now) ==
    [symbol |-> sym, size |-> 0, entry_price |-> Zero, entry_time |-> now,
     exit_time |-> "None", exit_price |-> Zero, pnl |-> Zero,
     is_closed |-> FALSE, transaction_history |-> <<>>, position_id |-> pid,
     has_direction |-> FALSE, position_direction |-> "unset",
     save_transaction_count |-> 0]

\* Position.calculate_pnl
CalculatePnl(p) ==
    IF p.size = 0 THEN Zero
    ELSE IF RatPos(p.exit_price)
      THEN RatMulInt(RatSub(p.exit_price, p.entry_price), p.size)
      ELSE Zero

\* Position.close_position: the position after the call and the error raised.
ClosePosition(p, exit_price, exit_time) ==
    IF p.size = 0 THEN [pos |-> p, err |-> "ValueError"]
    ELSE LET p1 == [p EXCEPT !.exit_price = exit_price, !.exit_time = exit_time]
         IN  [pos |-> [p1 EXCEPT !.pnl = CalculatePnl(p1), !.is_closed = TRUE],
              err |-> "none"]

\* Position.update_position, entry branch: total_quote is the sum over the
\* fills of this transaction; entry_price = total_quote / abs(self.size).
EntryPrice(p, tx, size) == Rat(SumQuote(tx.fills), Abs(size))

\* Position.update_position: the position after the call and the error raised.
\* The direction, the entry time and the history are written before the
\* symbol check.
PositionUpdate(p, ev) ==
    LET tx == ev.transaction
        first == ~p.has_direction
        is_entry == first \/ p.position_direction = ev.position_direction
        p1 == [p EXCEPT
                 !.has_direction = TRUE,
                 !.position_direction = IF first THEN ev.position_direction ELSE @,
                 !.entry_time = IF first THEN tx.transact_time ELSE @,
                 !.transaction_history = Append(@, tx)]
        base_quantity == SumBase(tx.fills)
        signed_quantity == IF tx.order.side = "BUY" THEN base_quantity ELSE -base_quantity
    IN  IF tx.order.symbol # p.symbol THEN [pos |-> p1, err |-> "ValueError"]
        ELSE IF is_entry
          THEN LET size == p1.size + signed_quantity
               IN  [pos |-> [p1 EXCEPT !.size = size,
                                       !.entry_price = IF size # 0
                                                         THEN EntryPrice(p1, tx, size)
                                                         ELSE @],
                    err |-> "none"]
        ELSE IF signed_quantity = 0 THEN [pos |-> p1, err |-> "ZeroDivisionError"]
        ELSE ClosePosition(p1, Rat(SumQuote(tx.fills), Abs(signed_quantity)),
                           tx.transact_time)

--------------------------------------------------------------------------
(* Portfolio.update_position and OrderExecutor.publish_transactions *)

UpdSettled == \A i \in 1..Len(upd) : upd[i].pc \in {"done", "failed"}

\* OrderExecutor.publish_transactions: one TransactionClosedEvent per
\* transaction, each published in a task of its own; every publish starts a
\* Portfolio.update_position handler task.
PublishTransactions(batch) ==
    /\ UpdSettled
    /\ nTxn + Len(batch) <= MaxTxns
    /\ upd' = [i \in 1..Len(batch) |->
                 [ev |-> MakeClosedEvent(
                            MakeTransaction(batch[i].symbol, batch[i].side,
                                            batch[i].fills, nTxn + i)),
                  pc |-> "ready", err |-> "none", pe |-> <<>>]]
    /\ nTxn' = nTxn + Len(batch)
    /\ UNCHANGED <<positions, open_positions, closed_positions, storage>>

\* A handler that publishes the position as it was before the transaction
\* was applied, whether or not applying it succeeds.
PositionEventBeforeUpdate(pid, p, r) == <<[position_id |-> pid, position |-> p]>>

\* Portfolio.update_position, lines 84-85: Position.update_position, then
\* publish_position; a raise in the first skips the second.  The
\* PositionEvent carries the position, here as it is when published.
PositionEventOf(pid, p, r) ==
    IF r.err = "none" THEN <<[position_id |-> pid, position |-> r.pos]>> ELSE <<>>

\* The tail of Portfolio.update_position that leaves a closed position in
\* open_positions and only appends it to closed_positions.
MoveIfClosedKeepOpen(opn, cls, pos, sym) ==
    IF sym \notin DOMAIN opn THEN [open |-> opn, closed |-> cls, err |-> "KeyError"]
    ELSE IF pos[opn[sym]].is_closed
      THEN [open |-> opn,
            closed |-> DictSet(cls, sym,
                          Append(IF sym \in DOMAIN cls THEN cls[sym] ELSE <<>>, opn[sym])),
            err |-> "none"]
      ELSE [open |-> opn, closed |-> cls, err |-> "none"]

\* The tail of Portfolio.update_position: if the open position of the symbol
\* is closed, pop it and append it to closed_positions[symbol].
MoveIfClosed(opn, cls, pos, sym) ==
    IF sym \notin DOMAIN opn THEN [open |-> opn, closed |-> cls, err |-> "KeyError"]
    ELSE IF pos[opn[sym]].is_closed
      THEN [open |-> DictPop(opn, sym),
            closed |-> DictSet(cls, sym,
                          Append(IF sym \in DOMAIN cls THEN cls[sym] ELSE <<>>, opn[sym])),
            err |-> "none"]
      ELSE [open |-> opn, closed |-> cls, err |-> "none"]

\* Portfolio.update_position from its start to the await of publish_position:
\* look up or create the open position, apply the transaction, publish the
\* PositionEvent.  With no PositionEvent subscriber the publish returns
\* without yielding and the handler runs on to its end.
UpdStart(i) ==
    /\ i \in 1..Len(upd) /\ upd[i].pc = "ready"
    \* the loop is FIFO: tasks take their first step in creation order
    /\ \A j \in 1..(i - 1) : upd[j].pc # "ready"
    /\ LET ev == upd[i].ev
           sym == ev.transaction.order.symbol
           fresh == sym \notin DOMAIN open_positions
           pid == IF fresh THEN Cardinality(DOMAIN positions) + 1 ELSE open_positions[sym]
           p == IF fresh THEN NewPosition(sym, pid, nTxn) ELSE positions[pid]
           opn == IF fresh THEN DictSet(open_positions, sym, pid) ELSE open_positions
           r == PositionUpdate(p, ev)
           pos1 == DictSet(positions, pid, r.pos)
           m == MoveIfClosed(opn, closed_positions, pos1, sym)
           pe == PositionEventOf(pid, p, r)
       IN  /\ positions' = pos1
           /\ IF r.err # "none"
                THEN /\ upd' = [upd EXCEPT ![i].pc = "failed", ![i].err = r.err,
                                           ![i].pe = pe]
                     /\ open_positions' = opn
                     /\ UNCHANGED closed_positions
              ELSE IF storage
                THEN /\ upd' = [upd EXCEPT ![i].pc = "awaiting", ![i].pe = pe]
                     /\ open_positions' = opn
                     /\ UNCHANGED closed_positions
              ELSE /\ upd' = [upd EXCEPT ![i].pc = IF m.err = "none" THEN "done" ELSE "failed",
                                         ![i].err = m.err, ![i].pe = pe]
                   /\ open_positions' = m.open
                   /\ closed_positions' = m.closed
    /\ UNCHANGED <<storage, nTxn>>

\* Portfolio.update_position resumed after publish_position: the
\* PositionEvent handlers have finished.
UpdResume(i) ==
    /\ i \in 1..Len(upd) /\ upd[i].pc = "awaiting"
    \* the loop is FIFO: every handler task of the batch has had its first step
    /\ \A j \in 1..Len(upd) : upd[j].pc # "ready"
    /\ LET sym == upd[i].ev.transaction.order.symbol
           m == MoveIfClosed(open_positions, closed_positions, positions, sym)
       IN  /\ upd' = [upd EXCEPT ![i].pc = IF m.err = "none" THEN "done" ELSE "failed",
                                 ![i].err = m.err]
           /\ open_positions' = m.open
           /\ closed_positions' = m.closed
    /\ UNCHANGED <<positions, storage, nTxn>>

\* Portfolio.__init__; storage is the optional argument of
\* setup_backtest_subscribers.
PosInit ==
    /\ positions = EmptyDict
    /\ open_positions = EmptyDict
    /\ closed_positions = EmptyDict
    /\ upd = <<>>
    /\ storage \in BOOLEAN
    /\ nTxn = 0

PosIdle ==
    /\ positions = EmptyDict
    /\ open_positions = EmptyDict
    /\ closed_positions = EmptyDict
    /\ upd = <<>>
    /\ storage = FALSE
    /\ nTxn = 0

--------------------------------------------------------------------------
(* Portfolio._prepare_exit_orders: portfolio/portfolio.py *)

\* The loop body for a position that skips short positions.
ExitOrderOfLongOnly(sym, p) ==
    IF p.size > 0
      THEN <<[symbol |-> sym, quantity |-> p.size, side |-> "SELL"]>>
    ELSE <<>>

\* The loop body of _prepare_exit_orders: the orders appended for one item
\* of open_positions.
ExitOrderOf(sym, p) ==
    IF p.size > 0
      THEN <<[symbol |-> sym, quantity |-> p.size, side |-> "SELL"]>>
    ELSE IF p.size < 0
      THEN <<[symbol |-> sym, quantity |-> -p.size, side |-> "BUY"]>>
    ELSE <<>>

\* _prepare_exit_orders over the items of open_positions that remain.
RECURSIVE PrepareExitOrders(_, _, _)
PrepareExitOrders(opn, pos, todo) ==
    IF todo = {} THEN <<>>
    ELSE LET sym == CHOOSE x \in todo : TRUE
         IN  ExitOrderOf(sym, pos[opn[sym]])
               \o PrepareExitOrders(opn, pos, todo \ {sym})

\* A call of _prepare_exit_orders, as publish_orders makes on EXIT.
PrepareExit ==
    /\ exit_orders' = <<PrepareExitOrders(open_positions, positions,
                                          DOMAIN open_positions)>>
    /\ UNCHANGED posVars

\* The result of a call is dropped when the portfolio handles transactions.
ExitDropped ==
    /\ exit_orders' = <<>>
    /\ UNCHANGED <<busVars, ordVars, tickVars, sigVars, stratVars, entryVars, execVars, txnVars, addVars, cliVars, pobjVars, mockVars, saveVars, wireVars, jmVars, loopVars, dataVars>>

ExitIdle == exit_orders = <<>>

\* No call of _prepare_entry_orders is under way.
EntryIdle ==
    /\ entry_in = [signal |-> "HOLD", hedge_ratio |-> <<>>, agg_position_size |-> 1]
    /\ entry_out = <<>>

\* No execute_order call is under way.
ExecIdle ==
    /\ ex = [pc |-> "idle", orders |-> <<>>, err |-> "none"]
    /\ sub = <<>>
    /\ tce = <<>>

\* No Transaction is being constructed.
TxnIdle ==
    /\ txn_in = [order |-> [symbol |-> "BTCUSDC", side |-> "BUY"], fills |-> <<>>,
                 is_list |-> TRUE]
    /\ txn_out = <<>>

\* Portfolio.__init__: no symbol is tracked.
AddIdle ==
    /\ symbol_set = {}
    /\ add_call = <<>>

\* The backtest command has not been invoked.
CliIdle ==
    /\ cli = [pc |-> "start", save |-> FALSE, nsym |-> 0, i |-> 0, ticks |-> 0,
              client |-> FALSE, err |-> "none", failed |-> FALSE, exit |-> <<>>]
    /\ conn = "none"

\* A new Position on which update_position has not been called.
PobjIdle ==
    /\ pobj = NewPosition("BTCUSDC", 1, 0)
    /\ pcall = <<>>

\* MockClient.__init__: no asset has a balance entry.
MockIdle ==
    /\ asset_balance = EmptyDict
    /\ mock_call = <<>>
    /\ net = [a \in {"USDC", "BTC"} |-> 0]

\* TradingStorage.__init__: nothing handed to a database session yet.
SaveIdle ==
    /\ handed = <<>>
    /\ committed = <<>>
    /\ save_call = <<>>

\* No market-data tick is in progress.
WireIdle == wire = [pc |-> "idle", pending |-> 0, last_entry |-> "none"]

\* JohansenCointegrationModel() with the defaults: nothing fitted.
JmIdle ==
    /\ jm = [hedge_ratio |-> <<>>, num_assets |-> <<>>, half_life_window |-> <<>>,
             vec_hedge_ratio |-> <<>>]
    /\ jm_call = <<>>

\* The backtest loop has not started.
LoopIdle ==
    /\ loop_tasks = <<>>
    /\ event_log = <<>>
    /\ loop_tick = 0
    /\ driver = "idle"
    /\ left_running = 0
    /\ with_storage = FALSE

\* MockClient.__init__: no mock data, pointer 0, and no generator.
DataIdle ==
    /\ mock_data = EmptyDict
    /\ len_data = 0
    /\ current_pt = 0
    /\ mock_gen = [pc |-> "created", limit |-> 0, p0 |-> 0, yielded |-> <<>>]

--------------------------------------------------------------------------
(* BollingerBand: strategy/signal_generator.py.  A z-score or a threshold
   v of the program is the integer 10 * v here. *)

MaxRounds == 3     \* confirmations kept in the history

PositionStatuses == {"LONG", "SHORT", "IDLE"}

StrategyDecisions == {"LONG", "SHORT", "HOLD", "EXIT"}

ZScores == {-15, -10, -1, 0, 1, 10, 15}

\* BollingerBand validates neither threshold: any float is accepted.
EntryThresholds == {-10, 0, 10}
ExitThresholds == {-1, 0, 1}

\* generate_signal with non-strict comparisons.
GenerateSignalInclusive(pos, zscore, entry, exit, lo) ==
    IF pos = "IDLE"
      THEN IF zscore >= entry
             THEN (IF ~lo THEN "SHORT" ELSE "HOLD")
             ELSE (IF zscore <= -entry THEN "LONG" ELSE "HOLD")
    ELSE IF pos = "SHORT"
      THEN (IF ~lo /\ zscore <= exit THEN "EXIT" ELSE "HOLD")
    ELSE IF pos = "LONG" /\ zscore >= -exit THEN "EXIT"
    ELSE "HOLD"

\* generate_signal that does not look at long_only.
GenerateSignalShortAllowed(pos, zscore, entry, exit, lo) ==
    IF pos = "IDLE"
      THEN IF zscore > entry THEN "SHORT"
           ELSE (IF zscore < -entry THEN "LONG" ELSE "HOLD")
    ELSE IF pos = "SHORT"
      THEN (IF zscore < exit THEN "EXIT" ELSE "HOLD")
    ELSE IF pos = "LONG" /\ zscore > -exit THEN "EXIT"
    ELSE "HOLD"

\* generate_signal that enters SHORT whatever long_only says.
GenerateSignalShortEntry(pos, zscore, entry, exit, lo) ==
    IF pos = "IDLE"
      THEN IF zscore > entry THEN "SHORT"
           ELSE (IF zscore < -entry THEN "LONG" ELSE "HOLD")
    ELSE IF pos = "SHORT"
      THEN (IF ~lo /\ zscore < exit THEN "EXIT" ELSE "HOLD")
    ELSE IF pos = "LONG" /\ zscore > -exit THEN "EXIT"
    ELSE "HOLD"

\* BollingerBand.generate_signal: the decision it returns.
GenerateSignal(pos, zscore, entry, exit, lo) ==
    IF pos = "IDLE"
      THEN IF zscore > entry
             THEN (IF ~lo THEN "SHORT" ELSE "HOLD")
             ELSE (IF zscore < -entry THEN "LONG" ELSE "HOLD")
    ELSE IF pos = "SHORT"
      THEN (IF ~lo /\ zscore < exit THEN "EXIT" ELSE "HOLD")
    ELSE IF pos = "LONG" /\ zscore > -exit THEN "EXIT"
    ELSE "HOLD"

\* update_position that forgets the EXIT branch.
UpdatePositionNoExit(pos, action) ==
    IF action = "LONG" THEN "LONG"
    ELSE IF action = "SHORT" THEN "SHORT"
    ELSE pos

\* BollingerBand.update_position: the new position state.
UpdatePosition(pos, action) ==
    IF action = "LONG" THEN "LONG"
    ELSE IF action = "SHORT" THEN "SHORT"
    ELSE IF action = "EXIT" THEN "IDLE"
    ELSE pos

\* A generate_signal that moves the state itself on emission.
BandGenerateSignalMoving(zscore) ==
    LET s == GenerateSignal(position, zscore, entry_threshold, exit_threshold,
                            long_only)
    IN  /\ emitted' = <<[zscore |-> zscore, signal |-> s]>>
        /\ op' = [name |-> "generate_signal", arg |-> "none", before |-> position]
        /\ position' = UpdatePosition(position, s)
        /\ UNCHANGED <<entry_threshold, exit_threshold, long_only, rounds,
                       feedback>>

\* A call of BollingerBand.generate_signal.
BandGenerateSignal(zscore) ==
    LET s == GenerateSignal(position, zscore, entry_threshold, exit_threshold,
                            long_only)
    IN  /\ emitted' = <<[zscore |-> zscore, signal |-> s]>>
        /\ op' = [name |-> "generate_signal", arg |-> "none", before |-> position]
        /\ UNCHANGED <<position, entry_threshold, exit_threshold, long_only,
                       rounds, feedback>>

\* A call of BollingerBand.update_position.  It is a confirmation when its
\* action is the signal emitted just before.
BandUpdatePosition(action) ==
    LET confirms == emitted # <<>> /\ emitted[1].signal = action
    IN  /\ (feedback /\ confirms) => Len(rounds) < MaxRounds
        /\ position' = UpdatePosition(position, action)
        /\ op' = [name |-> "update_position", arg |-> action, before |-> position]
        /\ feedback' = (feedback /\ confirms)
        /\ rounds' = IF feedback /\ confirms
                       THEN Append(rounds, [zscore |-> emitted[1].zscore,
                                            signal |-> action,
                                            position |-> position'])
                       ELSE <<>>
        /\ emitted' = <<>>
        /\ UNCHANGED <<entry_threshold, exit_threshold, long_only>>

\* BollingerBand.__init__ apart from the thresholds and long_only.
SigStart ==
    /\ position = "IDLE"
    /\ emitted = <<>>
    /\ op = [name |-> "init", arg |-> "none", before |-> "IDLE"]
    /\ rounds = <<>>
    /\ feedback = TRUE

\* BollingerBand() with the defaults: entry 1.0, exit 0.0, long_only False.
SigIdle ==
    /\ SigStart
    /\ entry_threshold = 10 /\ exit_threshold = 0 /\ long_only = FALSE

SigInit ==
    /\ SigStart
    /\ entry_threshold \in EntryThresholds
    /\ exit_threshold \in ExitThresholds
    /\ long_only \in BOOLEAN

--------------------------------------------------------------------------
(* StatisticalArbitrage: strategy/statistical_arbitrage.py, with the
   signal model of strategy/johansen_model.py as a collaborator whose fit
   succeeds or raises and whose estimate answers a z-score. *)

MaxEvents == 3     \* MarketDataEvents handled in a run

\* on_market_data that fits the model on every event.
StrategyOnMarketDataRefit(fit_ok, zscore) ==
    /\ Len(model_calls) < 2 * MaxEvents
    /\ IF ~fit_ok
         THEN /\ model_calls' = Append(model_calls, "fit_raised")
              /\ UNCHANGED <<is_fitted, signal_event>>
         ELSE /\ is_fitted' = TRUE
              /\ model_calls' = model_calls \o <<"fit", "estimate">>
              /\ signal_event' =
                    <<[signal |-> GenerateSignal(position, zscore, entry_threshold,
                                                 exit_threshold, long_only)]>>
    /\ UNCHANGED <<current_signal, confirmed, sigVars>>

\* Strategy.on_market_data up to the publication of the SignalEvent: the
\* fit when is_fitted is not set (an exception of the model leaves the
\* handler before is_fitted is set), then generate_signal: the estimate,
\* the decision of the generator and the SignalEvent.
StrategyOnMarketData(fit_ok, zscore) ==
    /\ Len(model_calls) < 2 * MaxEvents
    /\ IF ~is_fitted /\ ~fit_ok
         THEN /\ model_calls' = Append(model_calls, "fit_raised")
              /\ UNCHANGED <<is_fitted, signal_event>>
         ELSE /\ is_fitted' = TRUE
              /\ model_calls' = model_calls \o
                    (IF is_fitted THEN <<"estimate">> ELSE <<"fit", "estimate">>)
              /\ signal_event' =
                    <<[signal |-> GenerateSignal(position, zscore, entry_threshold,
                                                 exit_threshold, long_only)]>>
    /\ UNCHANGED <<current_signal, confirmed, sigVars>>

\* Strategy.update_position, the TransactionClosedEvent handler: it gives
\* current_signal to the generator's update_position.
StrategyUpdatePosition ==
    /\ signal_event # <<>>
    /\ position' = UpdatePosition(position, current_signal)
    /\ confirmed' = <<[emitted |-> signal_event[1].signal,
                       before |-> position, after |-> position']>>
    /\ UNCHANGED <<is_fitted, current_signal, signal_event, model_calls,
                   entry_threshold, exit_threshold, long_only, emitted, op,
                   rounds, feedback>>

\* The attribute current_signal of a new strategy: the last emitted
\* decision, HOLD before any.
CurrentSignalStart == current_signal = "HOLD"

\* StatisticalArbitrage.__init__ apart from is_fitted.
StratStart ==
    /\ CurrentSignalStart
    /\ signal_event = <<>>
    /\ confirmed = <<>>

StratIdle == StratStart /\ is_fitted = FALSE /\ model_calls = <<>>

\* A new strategy, or one the driver has fitted on training data
\* (Strategy.fit) before the first event.
StratInit ==
    /\ StratStart
    /\ is_fitted \in BOOLEAN
    /\ model_calls = IF is_fitted THEN <<"fit">> ELSE <<>>

--------------------------------------------------------------------------
(* One market-data tick under setup_backtest_subscribers:
   core/bus/subscribers.py, cli/backtest.py, portfolio/portfolio.py.
   EventBus.publish(MarketDataEvent) creates the tasks of
   Strategy.on_market_data and Portfolio.update_account_size, in that
   order; on_market_data publishes the SignalEvent, which creates the task
   of Portfolio.publish_orders. *)

MaxTicks == 3      \* market-data ticks of a run

\* Free quote balances the client may hold.
Balances == {1, 2}

None == <<>>
Some(v) == <<v>>

TickQuiet == pcS \in {"idle", "done"} /\ pcU \in {"idle", "done"}

\* The backtest loop publishes the next MarketDataEvent: EventBus.publish
\* creates one task per MarketDataEvent handler and awaits gather.
PublishMarketData ==
    /\ tick < MaxTicks
    /\ TickQuiet
    /\ tick' = tick + 1
    /\ pcS' = "ready" /\ pcU' = "ready" /\ pcP' = "idle"
    /\ UNCHANGED <<suspends, balance, quote_listed, account_size, account_updated, signal,
                   written_at, sizings>>

\* Strategy.on_market_data up to its suspension: generate_signal computes
\* the decision and publishes the SignalEvent, whose only handler is
\* Portfolio.publish_orders; the strategy then awaits that task.
OnMarketData(decision) ==
    /\ pcS = "ready"
    /\ signal' = decision
    /\ pcS' = "awaiting"
    /\ pcP' = "ready"
    /\ UNCHANGED <<tick, suspends, balance, quote_listed, account_size, account_updated,
                   pcU, written_at, sizings>>

\* An update_account_size that writes account_size and never sets the Event.
WriteAccountSizeNoSet ==
    /\ account_size' = IF quote_listed THEN Some(balance) ELSE account_size
    /\ written_at' = IF quote_listed THEN tick ELSE written_at
    /\ pcU' = "done"
    /\ UNCHANGED <<account_updated, pcP>>

\* The tail of update_account_size once get_margin_account has answered:
\* account_size takes the free balance of the quote asset, the Event is
\* set, and a leverage_sizing call waiting on the Event becomes runnable.
\* A client whose userAssets has no entry for the quote leaves account_size
\* as it was.
WriteAccountSize ==
    /\ account_size' = IF quote_listed THEN Some(balance) ELSE account_size
    /\ written_at' = IF quote_listed THEN tick ELSE written_at
    /\ account_updated' = TRUE
    /\ pcU' = "done"
    /\ pcP' = IF pcP = "waiting" THEN "woken" ELSE pcP

\* update_account_size from its start: with a client whose
\* get_margin_account does not yield (MockClient) it runs to its end, with
\* one that does it suspends on the request.
UpdateAccountSizeStart ==
    /\ pcU = "ready"
    /\ pcS # "ready"
    /\ IF suspends
         THEN /\ pcU' = "awaiting"
              /\ UNCHANGED <<account_size, written_at, account_updated, pcP>>
         ELSE WriteAccountSize
    /\ UNCHANGED <<tick, suspends, balance, quote_listed, signal, pcS, sizings>>

\* update_account_size resumed with the answer of get_margin_account.
UpdateAccountSizeResume ==
    /\ pcU = "awaiting"
    /\ pcP # "ready"
    /\ WriteAccountSize
    /\ UNCHANGED <<tick, suspends, balance, quote_listed, signal, pcS, sizings>>

\* leverage_sizing after the wait on the Event: the None check, the read
\* of account_size and the clear of the Event.
LeverageSizing ==
    IF account_size = None
      THEN /\ pcP' = "failed"
           /\ UNCHANGED <<account_updated, sizings>>
      ELSE /\ sizings' = Append(sizings, [tick |-> tick,
                                          account_size |-> account_size[1],
                                          written_at |-> written_at,
                                          balance |-> balance])
           /\ account_updated' = FALSE
           /\ pcP' = "ordering"

\* publish_orders that sizes on HOLD as it does on an entry signal.
PublishOrdersStartSizingOnHold ==
    /\ pcP = "ready"
    /\ pcS # "ready" /\ pcU # "ready"
    /\ IF signal = "EXIT"
         THEN pcP' = "ordering" /\ UNCHANGED <<account_updated, sizings>>
       ELSE IF account_updated
         THEN LeverageSizing
         ELSE pcP' = "waiting" /\ UNCHANGED <<account_updated, sizings>>
    /\ UNCHANGED <<tick, suspends, balance, quote_listed, account_size, signal, pcS, pcU,
                   written_at>>

\* publish_orders from its start.  HOLD returns at once.  EXIT builds the
\* closing orders without sizing.  LONG and SHORT call leverage_sizing,
\* whose Event.wait returns without yielding when the Event is already set.
PublishOrdersStart ==
    /\ pcP = "ready"
    /\ pcS # "ready" /\ pcU # "ready"
    /\ IF signal = "HOLD"
         THEN pcP' = "done" /\ UNCHANGED <<account_updated, sizings>>
       ELSE IF signal = "EXIT"
         THEN pcP' = "ordering" /\ UNCHANGED <<account_updated, sizings>>
       ELSE IF account_updated
         THEN LeverageSizing
         ELSE pcP' = "waiting" /\ UNCHANGED <<account_updated, sizings>>
    /\ UNCHANGED <<tick, suspends, balance, quote_listed, account_size, signal, pcS, pcU,
                   written_at>>

\* leverage_sizing resumed by Event.set.
LeverageSizingResume ==
    /\ pcP = "woken"
    /\ LeverageSizing
    /\ UNCHANGED <<tick, suspends, balance, quote_listed, account_size, signal, pcS, pcU,
                   written_at>>

\* The rest of publish_orders: the orders are filtered, published and
\* executed, and the client's pay and gain move the free quote balance
\* (it stays as it is when the batch is abandoned or nothing is open).
ExecuteOrders(free) ==
    /\ pcP = "ordering"
    /\ balance' = free
    \* pay and gain create the balance entry of an asset they touch
    /\ quote_listed' = (quote_listed \/ free # balance)
    /\ pcP' = "done"
    /\ UNCHANGED <<tick, suspends, account_size, account_updated, signal,
                   pcS, pcU, written_at, sizings>>

\* The rest of publish_orders raising: execute_order rejects an empty
\* order list (EXIT with nothing open) and exchange errors are not caught.
\* The exception travels up through on_market_data to the backtest loop,
\* which publishes no further MarketDataEvent.
ExecuteOrdersFail ==
    /\ pcP = "ordering"
    /\ pcP' = "failed"
    /\ pcS' = "failed"
    /\ UNCHANGED <<tick, suspends, balance, quote_listed, account_size, account_updated,
                   signal, pcU, written_at, sizings>>

\* on_market_data resumed once the SignalEvent's handler has finished.
SignalPublished ==
    /\ pcS = "awaiting"
    /\ pcP = "done"
    /\ pcS' = "done"
    /\ UNCHANGED <<tick, suspends, balance, quote_listed, account_size, account_updated,
                   signal, pcU, pcP, written_at, sizings>>

\* Portfolio.__init__ with the default PortfolioConfig, before any tick.
TickStart ==
    /\ tick = 0
    /\ account_size = None
    /\ account_updated = FALSE
    /\ signal = "HOLD"
    /\ pcS = "idle" /\ pcU = "idle" /\ pcP = "idle"
    /\ written_at = 0
    /\ sizings = <<>>

TickIdle == TickStart /\ suspends = FALSE /\ balance = 1 /\ quote_listed = TRUE

TickInit == TickStart /\ suspends \in BOOLEAN /\ balance \in Balances /\ quote_listed \in BOOLEAN

--------------------------------------------------------------------------
(* Portfolio.publish_orders and Portfolio.filter_order: portfolio/portfolio.py.
   Quantities and prices are integers of a base unit. *)

MaxLegs == 2       \* orders in one batch

\* Symbol.filters: lot-size step and minimum, price tick, minimum notional.
SymbolFilters(sym) ==
    IF sym = "BTCUSDC"
      THEN [step_size |-> 2, min_qty |-> 2, tick_size |-> 2, min_notional |-> 6]
      ELSE [step_size |-> 1, min_qty |-> 1, tick_size |-> 1, min_notional |-> 4]

\* What get_avg_price may answer: a price, or a failure of the exchange call.
AvgPrices == {1, 4}
AvgPriceAnswers ==
    {[ok |-> TRUE, price |-> p] : p \in AvgPrices} \cup {[ok |-> FALSE, price |-> 0]}

\* round_step_size that rounds up to the next step.
RoundStepSizeUp(quantity, step_size) ==
    quantity + ((step_size - (quantity % step_size)) % step_size)

\* utils.round_step_size: quantity - quantity % step_size (on Decimals).
RoundStepSize(quantity, step_size) == quantity - (quantity % step_size)

MinErrors == {"BinanceOrderMinAmountException", "BinanceOrderMinTotalException"}

\* filter_order up to the notional check: the rounded order.  Price 0 stands
\* for None: both are falsy in Python and yield a market order.
FilteredOrder(order) ==
    LET f == SymbolFilters(order.symbol)
    IN  [symbol |-> order.symbol,
         quantity |-> RoundStepSize(order.quantity, f.step_size),
         side |-> order.side,
         price |-> IF order.price # 0
                     THEN RoundStepSize(order.price, f.tick_size) ELSE 0]

\* The last check of filter_order, given the price the notional is valued at.
NotionalCheck(new_order, avg_price) ==
    IF avg_price * new_order.quantity < SymbolFilters(new_order.symbol).min_notional
      THEN "BinanceOrderMinTotalException" ELSE "none"

\* A failing child hands its exception to gather's outer future if it is the first.
FirstError(cur, err) == IF cur = "none" THEN err ELSE cur

\* publish_orders from its try block: one filter_order task per order, then
\* the await of gather.  An empty order list never suspends in gather.
PublishOrdersFilter(orders) ==
    /\ po.pc = "idle"
    /\ po' = [pc |-> "filtering", orders |-> orders, firstErr |-> "none"]
    /\ flt' = [i \in 1..Len(orders) |->
                 [order |-> orders[i], pc |-> "ready", err |-> "none",
                  result |-> orders[i], avg_price |-> 0]]
    /\ published' = <<>>
    /\ UNCHANGED symbols

\* filter_order from its start: the symbol check, the rounding, the minimum
\* quantity check; a market order then awaits get_avg_price, a limit order
\* is valued at its own price and the coroutine ends.
FilterStart(i) ==
    /\ i \in 1..Len(flt) /\ flt[i].pc = "ready"
    \* the loop is FIFO: tasks take their first step in creation order
    /\ \A j \in 1..(i - 1) : flt[j].pc # "ready"
    /\ LET order == flt[i].order
           new_order == FilteredOrder(order)
           err == IF order.symbol \notin symbols THEN "ValueError"
                  ELSE IF new_order.quantity < SymbolFilters(order.symbol).min_qty
                    THEN "BinanceOrderMinAmountException"
                  ELSE IF new_order.price = 0 THEN "await"
                  ELSE NotionalCheck(new_order, new_order.price)
       IN  /\ flt' = [flt EXCEPT
                        ![i].pc = IF err = "await" THEN "awaiting"
                                  ELSE IF err = "none" THEN "done" ELSE "failed",
                        ![i].err = IF err = "await" THEN "none" ELSE err,
                        ![i].result = IF err \in {"await", "none"} THEN new_order ELSE @,
                        \* the local avg_price: a truthy rounded price is its own valuation
                        ![i].avg_price = IF new_order.price # 0 /\ err \in MinErrors \cup {"none"}
                                           /\ err # "BinanceOrderMinAmountException"
                                           THEN new_order.price ELSE @]
           /\ po' = IF err \in {"await", "none"} THEN po
                    ELSE [po EXCEPT !.firstErr = FirstError(@, err)]
    /\ UNCHANGED <<symbols, published>>

\* filter_order resumed with the answer of get_avg_price.
FilterResume(i, answer) ==
    /\ i \in 1..Len(flt) /\ flt[i].pc = "awaiting"
    /\ \A j \in 1..Len(flt) : flt[j].pc # "ready"
    /\ LET err == IF ~answer.ok THEN "BinanceAPIException"
                  ELSE NotionalCheck(flt[i].result, answer.price)
       IN  /\ flt' = [flt EXCEPT ![i].pc = IF err = "none" THEN "done" ELSE "failed",
                                 ![i].err = err,
                                 ![i].avg_price = IF answer.ok THEN answer.price ELSE @]
           /\ po' = IF err = "none" THEN po
                    ELSE [po EXCEPT !.firstErr = FirstError(@, err)]
    /\ UNCHANGED <<symbols, published>>

\* An except clause that catches every exception of the batch.
HandleFilterErrorCatchAll(err) == "returned"

\* except (BinanceOrderMinAmountException, BinanceOrderMinTotalException):
\* the two below-minimum conditions are logged, anything else propagates.
HandleFilterError(err) == IF err \in MinErrors THEN "returned" ELSE "raised"

\* publish_orders resumed by gather: the first exception of a child is
\* raised in it, or every order was filtered and one OrderCreatedEvent with
\* all of them is published.
PublishOrdersWake ==
    /\ po.pc = "filtering"
    /\ \A j \in 1..Len(flt) : flt[j].pc # "ready"
    /\ IF po.firstErr # "none"
         THEN /\ po' = [po EXCEPT !.pc = HandleFilterError(po.firstErr)]
              /\ UNCHANGED published
         ELSE /\ \A j \in 1..Len(flt) : flt[j].pc = "done"
              /\ published' = Append(published,
                                 [orders |-> [j \in 1..Len(flt) |-> flt[j].result]])
              /\ po' = [po EXCEPT !.pc = "returned"]
    /\ UNCHANGED <<symbols, flt>>

\* publish_orders has returned or raised and its filter_order tasks have all
\* ended: the frame and the tasks are gone, the portfolio is ready for the
\* next signal.
PublishOrdersEnd ==
    /\ po.pc \in {"returned", "raised"}
    /\ \A i \in 1..Len(flt) : flt[i].pc \in {"done", "failed"}
    /\ po' = [pc |-> "idle", orders |-> <<>>, firstErr |-> "none"]
    /\ flt' = <<>>
    /\ published' = <<>>
    /\ UNCHANGED symbols

\* Orders handed to filter_order: market orders as _prepare_entry_orders and
\* _prepare_exit_orders build them, and limit orders.
OrderChoices ==
    {[symbol |-> sym, quantity |-> q, side |-> "BUY", price |-> p] :
        sym \in SymbolNames, q \in {1, 3}, p \in {0, 1, 3, 5}}

OrderBatches == UNION {[1..n -> OrderChoices] : n \in 0..MaxLegs}

OrdIdle ==
    /\ symbols = SymbolNames
    /\ po = [pc |-> "idle", orders |-> <<>>, firstErr |-> "none"]
    /\ flt = <<>>
    /\ published = <<>>

\* Portfolio.__init__ followed by add_symbol calls for some symbols.
OrdInit ==
    /\ symbols \in SUBSET SymbolNames
    /\ po = [pc |-> "idle", orders |-> <<>>, firstErr |-> "none"]
    /\ flt = <<>>
    /\ published = <<>>

OrdOnly == UNCHANGED <<busVars, posVars, tickVars, sigVars, stratVars, exitVars, entryVars, execVars, txnVars, addVars, cliVars, pobjVars, mockVars, saveVars, wireVars, jmVars, loopVars, dataVars>>

InitOrders == OrdInit /\ BusInit /\ PosIdle /\ TickIdle /\ SigIdle /\ StratIdle /\ ExitIdle /\ EntryIdle /\ ExecIdle /\ TxnIdle /\ AddIdle /\ CliIdle /\ PobjIdle /\ MockIdle /\ SaveIdle /\ WireIdle /\ JmIdle /\ LoopIdle /\ DataIdle

NextOrders ==
    \/ \E orders \in OrderBatches : PublishOrdersFilter(orders) /\ OrdOnly
    \/ \E i \in 1..MaxLegs : FilterStart(i) /\ OrdOnly
    \/ \E i \in 1..MaxLegs, a \in AvgPriceAnswers : FilterResume(i, a) /\ OrdOnly
    \/ PublishOrdersWake /\ OrdOnly
    \/ PublishOrdersEnd /\ OrdOnly

SpecOrders == InitOrders /\ [][NextOrders]_vars

TickOnly == UNCHANGED <<busVars, posVars, ordVars, sigVars, stratVars, exitVars, entryVars, execVars, txnVars, addVars, cliVars, pobjVars, mockVars, saveVars, wireVars, jmVars, loopVars, dataVars>>

InitTick == TickInit /\ BusInit /\ PosIdle /\ OrdIdle /\ SigIdle /\ StratIdle /\ ExitIdle /\ EntryIdle /\ ExecIdle /\ TxnIdle /\ AddIdle /\ CliIdle /\ PobjIdle /\ MockIdle /\ SaveIdle /\ WireIdle /\ JmIdle /\ LoopIdle /\ DataIdle

NextTick ==
    \/ PublishMarketData /\ TickOnly
    \/ \E d \in StrategyDecisions : OnMarketData(d) /\ TickOnly
    \/ UpdateAccountSizeStart /\ TickOnly
    \/ UpdateAccountSizeResume /\ TickOnly
    \/ PublishOrdersStart /\ TickOnly
    \/ LeverageSizingResume /\ TickOnly
    \/ \E free \in Balances : ExecuteOrders(free) /\ TickOnly
    \/ ExecuteOrdersFail /\ TickOnly
    \/ SignalPublished /\ TickOnly

SpecTick == InitTick /\ [][NextTick]_vars

\* update_account_size taking its first step before on_market_data: the
\* order of the two MarketDataEvent handlers when they are subscribed the
\* other way round.
UpdateAccountSizeFirst ==
    /\ pcU = "ready"
    /\ pcS = "ready"
    /\ IF suspends
         THEN /\ pcU' = "awaiting"
              /\ UNCHANGED <<account_size, written_at, account_updated, pcP>>
         ELSE WriteAccountSize
    /\ UNCHANGED <<tick, suspends, balance, quote_listed, signal, pcS, sizings>>

\* The steps of the handler tasks of a tick, in either order of the two
\* MarketDataEvent handlers.
TickTaskSteps ==
    \/ \E d \in StrategyDecisions : OnMarketData(d) /\ TickOnly
    \/ UpdateAccountSizeStart /\ TickOnly
    \/ UpdateAccountSizeFirst /\ TickOnly
    \/ UpdateAccountSizeResume /\ TickOnly
    \/ PublishOrdersStart /\ TickOnly
    \/ LeverageSizingResume /\ TickOnly
    \/ \E free \in Balances : ExecuteOrders(free) /\ TickOnly
    \/ ExecuteOrdersFail /\ TickOnly
    \/ SignalPublished /\ TickOnly

NextTickFair ==
    \/ PublishMarketData /\ TickOnly
    \/ TickTaskSteps

\* The event loop runs every task that is ready, and a request the client
\* suspended on is answered: a handler step that stays possible is taken.
SpecTickFair == InitTick /\ [][NextTickFair]_vars /\ WF_vars(TickTaskSteps)

SigOnly == UNCHANGED <<busVars, posVars, ordVars, tickVars, stratVars, exitVars, entryVars, execVars, txnVars, addVars, cliVars, pobjVars, mockVars, saveVars, wireVars, jmVars, loopVars, dataVars>>

InitSignal == SigInit /\ BusInit /\ PosIdle /\ OrdIdle /\ TickIdle /\ StratIdle /\ ExitIdle /\ EntryIdle /\ ExecIdle /\ TxnIdle /\ AddIdle /\ CliIdle /\ PobjIdle /\ MockIdle /\ SaveIdle /\ WireIdle /\ JmIdle /\ LoopIdle /\ DataIdle

NextSignal ==
    \/ \E z \in ZScores : BandGenerateSignal(z) /\ SigOnly
    \/ \E a \in StrategyDecisions : BandUpdatePosition(a) /\ SigOnly

SpecSignal == InitSignal /\ [][NextSignal]_vars

--------------------------------------------------------------------------
(* Portfolio.get_order_side and Portfolio._prepare_entry_orders:
   portfolio/portfolio.py.  Hedge ratios and sizes are integers. *)

HedgeRatios == {-2, -1, 0, 1, 2}
AggSizes == {1, 3}

\* get_order_side that takes a hedge ratio of zero as a positive one.
GetOrderSideZeroAsPositive(hedge_ratio, decision) ==
    LET hedge_sign == IF hedge_ratio >= 0 THEN 1 ELSE -1
    IN  IF decision \notin {"LONG", "SHORT"} THEN "ValueError"
        ELSE IF (hedge_sign = 1) = (decision = "LONG") THEN "BUY" ELSE "SELL"

\* Portfolio.get_order_side: the side, or the error raised.  The lookup
\* table has the keys (1, LONG), (1, SHORT), (-1, LONG), (-1, SHORT).
GetOrderSide(hedge_ratio, decision) ==
    LET hedge_sign == IF hedge_ratio > 0 THEN 1 ELSE -1
    IN  IF hedge_ratio = 0 \/ decision \notin {"LONG", "SHORT"} THEN "ValueError"
        ELSE IF hedge_sign = 1 /\ decision = "LONG" THEN "BUY"
        ELSE IF hedge_sign = 1 /\ decision = "SHORT" THEN "SELL"
        ELSE IF hedge_sign = -1 /\ decision = "LONG" THEN "SELL"
        ELSE "BUY"

\* The loop of _prepare_entry_orders from leg i on: one market order per
\* leg, of quantity agg_position_size * abs(hedge_ratio); the first leg for
\* which get_order_side raises ends the call.
RECURSIVE EntryOrders(_, _, _, _)
EntryOrders(decision, legs, agg_position_size, i) ==
    IF i > Len(legs) THEN [orders |-> <<>>, err |-> "none"]
    ELSE LET sh == legs[i]
             side == GetOrderSide(sh.hedge_ratio, decision)
             rest == EntryOrders(decision, legs, agg_position_size, i + 1)
         IN  IF side = "ValueError" THEN [orders |-> <<>>, err |-> "ValueError"]
             ELSE IF rest.err # "none" THEN rest
             ELSE [orders |-> <<[symbol |-> sh.symbol,
                                 quantity |-> agg_position_size * Abs(sh.hedge_ratio),
                                 side |-> side, price |-> 0]>> \o rest.orders,
                   err |-> "none"]

\* A call of _prepare_entry_orders once leverage_sizing has answered.
PrepareEntryOrders ==
    /\ entry_out = <<>>
    /\ entry_out' = <<EntryOrders(entry_in.signal, entry_in.hedge_ratio,
                                  entry_in.agg_position_size, 1)>>
    /\ UNCHANGED entry_in

\* The hedge ratios of a fitted model: one leg per symbol of the basket.
HedgeRatioLists ==
    UNION {{[i \in 1..n |-> [symbol |-> syms[i], hedge_ratio |-> r[i]]] :
               syms \in [1..n -> SymbolNames], r \in [1..n -> HedgeRatios]} :
           n \in 1..MaxLegs}

EntryInit ==
    /\ entry_in \in [signal : StrategyDecisions, hedge_ratio : HedgeRatioLists,
                     agg_position_size : AggSizes]
    /\ entry_out = <<>>

EntryOnly == UNCHANGED <<busVars, posVars, ordVars, tickVars, sigVars, stratVars, exitVars, execVars, txnVars, addVars, cliVars, pobjVars, mockVars, saveVars, wireVars, jmVars, loopVars, dataVars>>

InitEntry == EntryInit /\ BusInit /\ PosIdle /\ OrdIdle /\ TickIdle /\ SigIdle /\ StratIdle /\ ExitIdle /\ ExecIdle /\ TxnIdle /\ AddIdle /\ CliIdle /\ PobjIdle /\ MockIdle /\ SaveIdle /\ WireIdle /\ JmIdle /\ LoopIdle /\ DataIdle

NextEntry == PrepareEntryOrders /\ EntryOnly

SpecEntry == InitEntry /\ [][NextEntry]_vars

StratOnly == UNCHANGED <<busVars, posVars, ordVars, tickVars, exitVars, entryVars, execVars, txnVars, addVars, cliVars, pobjVars, mockVars, saveVars, wireVars, jmVars, loopVars, dataVars>>

InitStrategy == StratInit /\ SigInit /\ BusInit /\ PosIdle /\ OrdIdle /\ TickIdle /\ ExitIdle /\ EntryIdle /\ ExecIdle /\ TxnIdle /\ AddIdle /\ CliIdle /\ PobjIdle /\ MockIdle /\ SaveIdle /\ WireIdle /\ JmIdle /\ LoopIdle /\ DataIdle

NextStrategy ==
    \/ \E ok \in BOOLEAN, z \in ZScores : StrategyOnMarketData(ok, z) /\ StratOnly
    \/ StrategyUpdatePosition /\ StratOnly

SpecStrategy == InitStrategy /\ [][NextStrategy]_vars

--------------------------------------------------------------------------
(* Specification of the event bus alone *)

InitBus == BusInit /\ PosIdle /\ OrdIdle /\ TickIdle /\ SigIdle /\ StratIdle /\ ExitIdle /\ EntryIdle /\ ExecIdle /\ TxnIdle /\ AddIdle /\ CliIdle /\ PobjIdle /\ MockIdle /\ SaveIdle /\ WireIdle /\ JmIdle /\ LoopIdle /\ DataIdle

BusOnly == UNCHANGED <<posVars, ordVars, tickVars, sigVars, stratVars, exitVars, entryVars, execVars, txnVars, addVars, cliVars, pobjVars, mockVars, saveVars, wireVars, jmVars, loopVars, dataVars>>

NextBus ==
    \/ \E t \in EventTypes, h \in Handlers : Subscribe(t, h) /\ BusOnly
    \/ \E t \in EventTypes, e \in Data : Publish(t, e) /\ BusOnly
    \/ \E i \in 1..MaxSubs : TaskRun(i) /\ BusOnly
    \/ \E i \in 1..MaxSubs : TaskResume(i) /\ BusOnly
    \/ PublishWake /\ BusOnly

SpecBus == InitBus /\ [][NextBus]_vars


--------------------------------------------------------------------------
(* Specification of position bookkeeping: batches of transactions published
   by the executor and applied by Portfolio.update_position *)

\* An executed order: its symbol and side, and the fills of its response.
BatchItems ==
    UNION {{[symbol |-> sym, side |-> side, fills |-> fl] :
               side \in OrderSides, fl \in FillChoices(sym)} : sym \in SymbolNames}

Batches == UNION {[1..n -> BatchItems] : n \in 1..MaxBatch}

PosOnly == UNCHANGED <<busVars, ordVars, tickVars, sigVars, stratVars, exitVars, entryVars, execVars, txnVars, addVars, cliVars, pobjVars, mockVars, saveVars, wireVars, jmVars, loopVars, dataVars>>

Init == PosInit /\ BusInit /\ OrdIdle /\ TickIdle /\ SigIdle /\ StratIdle /\ ExitIdle /\ EntryIdle /\ ExecIdle /\ TxnIdle /\ AddIdle /\ CliIdle /\ PobjIdle /\ MockIdle /\ SaveIdle /\ WireIdle /\ JmIdle /\ LoopIdle /\ DataIdle

Next ==
    \/ \E batch \in Batches : PublishTransactions(batch) /\ PosOnly
    \/ \E i \in 1..MaxBatch : UpdStart(i) /\ PosOnly
    \/ \E i \in 1..MaxBatch : UpdResume(i) /\ PosOnly

Spec == Init /\ [][Next]_vars

ExitOnly == UNCHANGED <<busVars, ordVars, tickVars, sigVars, stratVars, entryVars, execVars, txnVars, addVars, cliVars, pobjVars, mockVars, saveVars, wireVars, jmVars, loopVars, dataVars>>

NextExit ==
    \/ \E batch \in Batches : PublishTransactions(batch) /\ ExitDropped
    \/ \E i \in 1..MaxBatch : UpdStart(i) /\ ExitDropped
    \/ \E i \in 1..MaxBatch : UpdResume(i) /\ ExitDropped
    \/ PrepareExit /\ ExitOnly

InitExit == PosInit /\ BusInit /\ OrdIdle /\ TickIdle /\ SigIdle /\ StratIdle /\ ExitIdle /\ EntryIdle /\ ExecIdle /\ TxnIdle /\ AddIdle /\ CliIdle /\ PobjIdle /\ MockIdle /\ SaveIdle /\ WireIdle /\ JmIdle /\ LoopIdle /\ DataIdle

SpecExit == InitExit /\ [][NextExit]_vars

--------------------------------------------------------------------------
(* OrderExecutor: trader/order_executor.py *)

\* Orders an OrderCreatedEvent may carry.
ExecOrderChoices ==
    {[symbol |-> sym, quantity |-> 1, side |-> sd, price |-> 0] :
        sym \in SymbolNames, sd \in OrderSides}

ExecBatches == UNION {[1..n -> ExecOrderChoices] : n \in 0..MaxLegs}

\* What create_margin_order may give for an order: a response with fills
\* (possibly none), a response without a "fills" entry, or an exception.
Responses(sym) ==
    {[kind |-> "ok", fills |-> f] : f \in FillChoices(sym) \cup {<<>>}}
      \cup {[kind |-> "invalid", fills |-> <<>>], [kind |-> "error", fills |-> <<>>]}

\* execute_order without the check of the order list.
ExecuteOrderStartNoCheck(orders) ==
    /\ ex.pc = "idle"
    /\ ex' = [pc |-> "submitting", orders |-> orders, err |-> "none"]
    /\ sub' = [i \in 1..Len(orders) |-> [pc |-> "ready", response |-> <<>>]]
    /\ UNCHANGED tce

\* execute_order from its start: an empty order list raises ValueError
\* before anything is built; otherwise one create_margin_order coroutine per
\* order is handed to gather and the call suspends.
ExecuteOrderStart(orders) ==
    /\ ex.pc = "idle"
    /\ IF orders = <<>>
         THEN /\ ex' = [pc |-> "raised", orders |-> orders, err |-> "ValueError"]
              /\ UNCHANGED <<sub, tce>>
         ELSE /\ ex' = [pc |-> "submitting", orders |-> orders, err |-> "none"]
              /\ sub' = [i \in 1..Len(orders) |-> [pc |-> "ready", response |-> <<>>]]
              /\ UNCHANGED tce

\* A create_margin_order task takes its first step: the order goes to the
\* exchange.  Tasks start in creation order.
CreateMarginOrder(i) ==
    /\ i \in 1..Len(sub) /\ sub[i].pc = "ready"
    /\ \A j \in 1..(i - 1) : sub[j].pc # "ready"
    /\ sub' = [sub EXCEPT ![i].pc = "sent"]
    /\ UNCHANGED <<ex, tce>>

\* The exchange answers an order, or the request fails; the first failure
\* is the one gather raises.
OrderResponse(i, r) ==
    /\ i \in 1..Len(sub) /\ sub[i].pc = "sent"
    /\ r \in Responses(ex.orders[i].symbol)
    /\ sub' = [sub EXCEPT ![i].pc = IF r.kind = "error" THEN "failed" ELSE "answered",
                          ![i].response = <<r>>]
    /\ ex' = IF r.kind = "error" /\ ex.pc = "submitting" /\ ex.err = "none"
               THEN [ex EXCEPT !.err = "BinanceAPIException"] ELSE ex
    /\ UNCHANGED tce

\* create_transaction over the responses from the i-th on: the error of the
\* first response without fills (no "fills" entry: create_transaction;
\* empty list: Transaction.__post_init__), or none.
RECURSIVE CreateTransactionsError(_, _)
CreateTransactionsError(tasks_, i) ==
    IF i > Len(tasks_) THEN "none"
    ELSE IF tasks_[i].response[1].kind = "invalid" \/ tasks_[i].response[1].fills = <<>>
      THEN "ValueError"
    ELSE CreateTransactionsError(tasks_, i + 1)

\* execute_order resumed by gather.  A failed request raises in it at once.
\* With every response in, the transactions are built in order and
\* publish_transactions publishes one TransactionClosedEvent for each, every
\* publish in a task of its own, and awaits them.
ExecuteOrderWake ==
    /\ ex.pc = "submitting"
    /\ \A j \in 1..Len(sub) : sub[j].pc # "ready"
    /\ IF ex.err # "none"
         THEN ex' = [ex EXCEPT !.pc = "raised"] /\ UNCHANGED tce
         ELSE /\ \A j \in 1..Len(sub) : sub[j].pc = "answered"
              /\ LET err == CreateTransactionsError(sub, 1)
                 IN  IF err # "none"
                       THEN ex' = [ex EXCEPT !.pc = "raised", !.err = err] /\ UNCHANGED tce
                       ELSE /\ ex' = [ex EXCEPT !.pc = "publishing"]
                            /\ tce' = [j \in 1..Len(sub) |->
                                         MakeClosedEvent(
                                           MakeTransaction(ex.orders[j].symbol,
                                                           ex.orders[j].side,
                                                           sub[j].response[1].fills, j))]
    /\ UNCHANGED sub

\* publish_transactions resumed by gather: every handler of the events has
\* finished, or one of them raised.
PublishTransactionsEnd(handlers_ok) ==
    /\ ex.pc = "publishing"
    /\ ex' = IF handlers_ok THEN [ex EXCEPT !.pc = "returned"]
             ELSE [ex EXCEPT !.pc = "raised", !.err = "HandlerError"]
    /\ UNCHANGED <<sub, tce>>

\* The call is over and its requests have all ended: the executor is ready
\* for the next OrderCreatedEvent.
ExecuteOrderEnd ==
    /\ ex.pc \in {"returned", "raised"}
    /\ \A j \in 1..Len(sub) : sub[j].pc \in {"answered", "failed"}
    /\ ex' = [pc |-> "idle", orders |-> <<>>, err |-> "none"]
    /\ sub' = <<>>
    /\ tce' = <<>>

ExecOnly == UNCHANGED <<busVars, posVars, ordVars, tickVars, sigVars, stratVars, exitVars, entryVars, txnVars, addVars, cliVars, pobjVars, mockVars, saveVars, wireVars, jmVars, loopVars, dataVars>>

InitExec == ExecIdle /\ BusInit /\ PosIdle /\ OrdIdle /\ TickIdle /\ SigIdle /\ StratIdle /\ ExitIdle /\ EntryIdle /\ TxnIdle /\ AddIdle /\ CliIdle /\ PobjIdle /\ MockIdle /\ SaveIdle /\ WireIdle /\ JmIdle /\ LoopIdle /\ DataIdle

NextExec ==
    \/ \E orders \in ExecBatches : ExecuteOrderStart(orders) /\ ExecOnly
    \/ \E i \in 1..MaxLegs : CreateMarginOrder(i) /\ ExecOnly
    \/ \E i \in 1..MaxLegs, r \in UNION {Responses(sym) : sym \in SymbolNames} :
          OrderResponse(i, r) /\ ExecOnly
    \/ ExecuteOrderWake /\ ExecOnly
    \/ \E ok \in BOOLEAN : PublishTransactionsEnd(ok) /\ ExecOnly
    \/ ExecuteOrderEnd /\ ExecOnly

SpecExec == InitExec /\ [][NextExec]_vars

--------------------------------------------------------------------------
(* Transaction.__post_init__: core/types.py *)

MaxFills == 2      \* fills handed to one Transaction

\* Fills of either symbol.
FillInputs ==
    {[symbol |-> sym, price |-> 2, quantity |-> q, commission |-> 0,
      commission_asset |-> "BNB"] : sym \in SymbolNames, q \in {1, 2}}

\* Transaction.__post_init__: the error raised, or "none".  An empty fills
\* container is rejected first, then one that is not a list, then a first
\* fill of another symbol than the order's.
TransactionPostInit(order, fills, is_list) ==
    IF fills = <<>> THEN "ValueError"
    ELSE IF ~is_list THEN "TypeError"
    ELSE IF order.symbol # fills[1].symbol THEN "ValueError"
    ELSE "none"

\* Transaction(order=..., fills=..., transact_time=...)
ConstructTransaction ==
    /\ txn_out = <<>>
    /\ txn_out' = <<TransactionPostInit(txn_in.order, txn_in.fills, txn_in.is_list)>>
    /\ UNCHANGED txn_in

TxnInit ==
    /\ txn_in \in [order : [symbol : SymbolNames, side : OrderSides],
                   fills : UNION {[1..n -> FillInputs] : n \in 0..MaxFills},
                   is_list : BOOLEAN]
    /\ txn_out = <<>>

TxnOnly == UNCHANGED <<busVars, posVars, ordVars, tickVars, sigVars, stratVars, exitVars, entryVars, execVars, addVars, cliVars, pobjVars, mockVars, saveVars, wireVars, jmVars, loopVars, dataVars>>

InitTxn == TxnInit /\ BusInit /\ PosIdle /\ OrdIdle /\ TickIdle /\ SigIdle /\ StratIdle /\ ExitIdle /\ EntryIdle /\ ExecIdle /\ AddIdle /\ CliIdle /\ PobjIdle /\ MockIdle /\ SaveIdle /\ WireIdle /\ JmIdle /\ LoopIdle /\ DataIdle

NextTxn == ConstructTransaction /\ TxnOnly

SpecTxn == InitTxn /\ [][NextTxn]_vars

--------------------------------------------------------------------------
(* Portfolio.add_symbol: portfolio/portfolio.py; Symbol: core/types.py *)

\* Versions of the fields of a Symbol other than its name (assets,
\* precisions, filters).
SymbolFieldSets == {"a", "b", "c"}

\* Symbol objects.
SymbolObjects == [name : SymbolNames, fields : SymbolFieldSets]

\* BinanceExchangeInfo.get_symbol_info: the Symbol the exchange info holds
\* for a name, <<>> for a name it does not hold.
GetSymbolInfo(name) ==
    IF name \in SymbolNames THEN <<[name |-> name, fields |-> "a"]>> ELSE <<>>

\* Arguments of add_symbol: a name, a Symbol, or an object of another type.
AddSymbolArgs ==
    {[kind |-> "str", name |-> n, fields |-> "a"] : n \in SymbolNames \cup {"XRPUSDC"}}
      \cup {[kind |-> "Symbol", name |-> o.name, fields |-> o.fields] : o \in SymbolObjects}
      \cup {[kind |-> "other", name |-> "BTCUSDC", fields |-> "a"]}

\* Membership in the set with Symbols compared field by field.
SymbolInAllFields(sym, set) == sym \in set

\* symbol in self.symbols: Symbol.__hash__ and Symbol.__eq__ use the name only.
SymbolIn(sym, set) == \E t \in set : t.name = sym.name

\* add_symbol: a name is resolved through the exchange info, anything that
\* is not a Symbol raises TypeError, a Symbol already in the set raises
\* ValueError, any other is added.
AddSymbol(arg) ==
    LET resolved == IF arg.kind = "str" THEN GetSymbolInfo(arg.name)
                    ELSE IF arg.kind = "Symbol"
                      THEN <<[name |-> arg.name, fields |-> arg.fields]>>
                    ELSE <<>>
        err == IF arg.kind = "str" /\ resolved = <<>> THEN "ValueError"
               ELSE IF resolved = <<>> THEN "TypeError"
               ELSE IF SymbolIn(resolved[1], symbol_set) THEN "ValueError"
               ELSE "none"
    IN  /\ symbol_set' = IF err = "none" THEN symbol_set \cup {resolved[1]} ELSE symbol_set
        /\ add_call' = <<[arg |-> arg, before |-> symbol_set, err |-> err]>>

AddOnly == UNCHANGED <<busVars, posVars, ordVars, tickVars, sigVars, stratVars, exitVars, entryVars, execVars, txnVars, cliVars, pobjVars, mockVars, saveVars, wireVars, jmVars, loopVars, dataVars>>

InitAdd == AddIdle /\ BusInit /\ PosIdle /\ OrdIdle /\ TickIdle /\ SigIdle /\ StratIdle /\ ExitIdle /\ EntryIdle /\ ExecIdle /\ TxnIdle /\ CliIdle /\ PobjIdle /\ MockIdle /\ SaveIdle /\ WireIdle /\ JmIdle /\ LoopIdle /\ DataIdle

NextAdd == \E arg \in AddSymbolArgs : AddSymbol(arg) /\ AddOnly

SpecAdd == InitAdd /\ [][NextAdd]_vars

--------------------------------------------------------------------------
(* The backtest command: cli/backtest.py.  Every step that calls out may
   raise; ok tells whether it did not. *)

\* A step of the try block from position pc: on success the command moves
\* to next, on failure the exception is pending and the except clause runs.
CliStep(pc, ok, next) ==
    /\ cli.pc = pc
    /\ cli' = IF ok THEN [cli EXCEPT !.pc = next]
              ELSE [cli EXCEPT !.pc = "except", !.err = "Exception", !.failed = TRUE]

\* _setup_backtest_environment, before the try block: without credentials
\* the ClickException leaves the command at once.
SetupBacktestEnvironment(ok) ==
    /\ cli.pc = "start"
    /\ cli' = IF ok THEN [cli EXCEPT !.pc = "create"]
              ELSE [cli EXCEPT !.pc = "exited", !.failed = TRUE, !.exit = <<1>>]
    /\ UNCHANGED conn

\* MockClient.create, first half: AsyncClient.create builds the client and
\* opens its connection.
ClientCreate(ok) ==
    /\ CliStep("create", ok, "klines")
    /\ conn' = IF ok THEN "open" ELSE conn

\* MockClient.create, second half: the klines of the whole period are
\* fetched through the new client.
ClientFetchKlines(ok) ==
    /\ CliStep("klines", ok, "exchange_info")
    /\ UNCHANGED conn

\* Portfolio(...) and BinanceExchangeInfo.fetch_exchange_info.
FetchExchangeInfo(ok) ==
    /\ CliStep("exchange_info", ok, "add_symbol")
    /\ UNCHANGED conn

\* One turn of the add_symbol loop: an unknown or repeated symbol raises.
AddSymbolLoop(ok) ==
    /\ cli.pc = "add_symbol" /\ cli.i < cli.nsym
    /\ cli' = IF ok THEN [cli EXCEPT !.i = @ + 1]
              ELSE [cli EXCEPT !.pc = "except", !.err = "Exception", !.failed = TRUE]
    /\ UNCHANGED conn

\* The training klines are fetched and the strategy is fitted;
\* _initialize_backtest_components then returns and backtest binds its
\* local variable client.
FitAndReturn(ok) ==
    /\ cli.pc = "add_symbol" /\ cli.i = cli.nsym
    /\ cli' = IF ok THEN [cli EXCEPT !.pc = "loop_setup", !.client = TRUE]
              ELSE [cli EXCEPT !.pc = "except", !.err = "Exception", !.failed = TRUE]
    /\ UNCHANGED conn

\* _run_backtest_loop up to the loop: the session is saved when save is
\* set, the subscribers are set up and the client's pointer is placed.
LoopSetup(ok) ==
    /\ CliStep("loop_setup", ok, "loop")
    /\ UNCHANGED conn

\* One MarketDataEvent is published and handled.
LoopPublish(ok) ==
    /\ cli.pc = "loop" /\ cli.ticks < MaxTicks
    /\ cli' = IF ok THEN [cli EXCEPT !.ticks = @ + 1]
              ELSE [cli EXCEPT !.pc = "except", !.err = "Exception", !.failed = TRUE]
    /\ UNCHANGED conn

\* The mock data is exhausted: the try block ends.
LoopCompleted ==
    /\ cli.pc = "loop"
    /\ cli' = [cli EXCEPT !.pc = "finally"]
    /\ UNCHANGED conn

\* except Exception: the error is re-raised as a ClickException.
ExceptClause ==
    /\ cli.pc = "except"
    /\ cli' = [cli EXCEPT !.pc = "finally", !.err = "ClickException"]
    /\ UNCHANGED conn

\* finally: the connection is closed if the local variable client is bound;
\* a pending ClickException then ends the command with exit status 1.
FinallyClause ==
    /\ cli.pc = "finally"
    /\ conn' = IF cli.client THEN "closed" ELSE conn
    /\ cli' = [cli EXCEPT !.pc = "exited",
                          !.exit = IF cli.err = "none" THEN <<0>> ELSE <<1>>]

\* The command is invoked with some symbols and with --save or --no-save.
CliInit ==
    /\ cli \in [pc : {"start"}, save : BOOLEAN, nsym : 0..MaxLegs, i : {0}, ticks : {0},
                client : {FALSE}, err : {"none"}, failed : {FALSE}, exit : {<<>>}]
    /\ conn = "none"

CliOnly == UNCHANGED <<busVars, posVars, ordVars, tickVars, sigVars, stratVars, exitVars, entryVars, execVars, txnVars, addVars, pobjVars, mockVars, saveVars, wireVars, jmVars, loopVars, dataVars>>

InitCli == CliInit /\ BusInit /\ PosIdle /\ OrdIdle /\ TickIdle /\ SigIdle /\ StratIdle /\ ExitIdle /\ EntryIdle /\ ExecIdle /\ TxnIdle /\ AddIdle /\ PobjIdle /\ MockIdle /\ SaveIdle /\ WireIdle /\ JmIdle /\ LoopIdle /\ DataIdle

NextCli ==
    \/ \E ok \in BOOLEAN : SetupBacktestEnvironment(ok) /\ CliOnly
    \/ \E ok \in BOOLEAN : ClientCreate(ok) /\ CliOnly
    \/ \E ok \in BOOLEAN : ClientFetchKlines(ok) /\ CliOnly
    \/ \E ok \in BOOLEAN : FetchExchangeInfo(ok) /\ CliOnly
    \/ \E ok \in BOOLEAN : AddSymbolLoop(ok) /\ CliOnly
    \/ \E ok \in BOOLEAN : FitAndReturn(ok) /\ CliOnly
    \/ \E ok \in BOOLEAN : LoopSetup(ok) /\ CliOnly
    \/ \E ok \in BOOLEAN : LoopPublish(ok) /\ CliOnly
    \/ LoopCompleted /\ CliOnly
    \/ ExceptClause /\ CliOnly
    \/ FinallyClause /\ CliOnly

SpecCli == InitCli /\ [][NextCli]_vars

--------------------------------------------------------------------------
(* Position.update_position called on one Position object: portfolio/position.py *)

\* position.update_position(event): the transaction is the next one of the
\* run; the call either returns or raises, and the object keeps whatever
\* was written before the raise.
PositionUpdateCall(item) ==
    /\ Len(pobj.transaction_history) < MaxTxns
    /\ LET k == Len(pobj.transaction_history) + 1
           ev == MakeClosedEvent(MakeTransaction(item.symbol, item.side, item.fills, k))
           r == PositionUpdate(pobj, ev)
       IN  /\ pobj' = r.pos
           /\ pcall' = <<[ev |-> ev, before |-> pobj, err |-> r.err]>>

\* Position(symbol) for either symbol.
PobjInit ==
    /\ pobj \in {NewPosition(sym, 1, 0) : sym \in SymbolNames}
    /\ pcall = <<>>

PobjOnly == UNCHANGED <<busVars, posVars, ordVars, tickVars, sigVars, stratVars, exitVars, entryVars, execVars, txnVars, addVars, cliVars, mockVars, saveVars, wireVars, jmVars, loopVars, dataVars>>

InitPobj == PobjInit /\ BusInit /\ PosIdle /\ OrdIdle /\ TickIdle /\ SigIdle /\ StratIdle /\ ExitIdle /\ EntryIdle /\ ExecIdle /\ TxnIdle /\ AddIdle /\ CliIdle /\ MockIdle /\ SaveIdle /\ WireIdle /\ JmIdle /\ LoopIdle /\ DataIdle

NextPobj == \E item \in BatchItems : PositionUpdateCall(item) /\ PobjOnly

SpecPobj == InitPobj /\ [][NextPobj]_vars

--------------------------------------------------------------------------
(* MockClient.pay and MockClient.gain: clients/mock.py.  Amounts are
   integers; locked and interest stay 0.0 and are left out. *)

MaxBalance == 4    \* free and borrowed amounts stay within this

Assets == {"USDC", "BTC"}
Amounts == 0..3

Max(a, b) == IF a >= b THEN a ELSE b

\* The entry of an asset, created at 0 on first use.
EntryOf(bal, asset) ==
    IF asset \in DOMAIN bal THEN bal[asset]
    ELSE [free |-> 0, locked |-> 0, borrowed |-> 0, interest |-> 0]

\* pay that books the whole amount as borrowed when free is insufficient.
MockPayBorrowAll(bal, asset, amount) ==
    LET e == EntryOf(bal, asset)
    IN  DictSet(bal, asset,
                [e EXCEPT !.free = Max(0, e.free - amount),
                          !.borrowed = IF e.free < amount THEN e.borrowed + amount
                                       ELSE e.borrowed])

\* MockClient.pay: the balances after the call.
MockPay(bal, asset, amount) ==
    LET e == EntryOf(bal, asset)
        borrowed == IF e.free < amount THEN e.borrowed + (amount - e.free) ELSE e.borrowed
    IN  DictSet(bal, asset, [e EXCEPT !.free = Max(0, e.free - amount),
                                      !.borrowed = borrowed])

\* gain that leaves the loan as it is and adds the whole amount to free.
MockGainNoRepay(bal, asset, amount) ==
    LET e == EntryOf(bal, asset)
    IN  DictSet(bal, asset, [e EXCEPT !.free = e.free + amount])

\* MockClient.gain: the balances after the call; a loan is repaid first.
MockGain(bal, asset, amount) ==
    LET e == EntryOf(bal, asset)
    IN  IF e.borrowed > 0
          THEN DictSet(bal, asset,
                       [e EXCEPT !.free = e.free + Max(0, amount - e.borrowed),
                                 !.borrowed = Max(0, e.borrowed - amount)])
          ELSE DictSet(bal, asset, [e EXCEPT !.free = e.free + amount])

WithinBalance(bal) ==
    \A a \in DOMAIN bal : bal[a].free <= MaxBalance /\ bal[a].borrowed <= MaxBalance

Pay(asset, amount) ==
    /\ WithinBalance(MockPay(asset_balance, asset, amount))
    /\ asset_balance' = MockPay(asset_balance, asset, amount)
    /\ mock_call' = <<[op |-> "pay", asset |-> asset, amount |-> amount,
                       before |-> asset_balance]>>
    /\ net' = [net EXCEPT ![asset] = @ - amount]

Gain(asset, amount) ==
    /\ WithinBalance(MockGain(asset_balance, asset, amount))
    /\ asset_balance' = MockGain(asset_balance, asset, amount)
    /\ mock_call' = <<[op |-> "gain", asset |-> asset, amount |-> amount,
                       before |-> asset_balance]>>
    /\ net' = [net EXCEPT ![asset] = @ + amount]

MockOnly == UNCHANGED <<busVars, posVars, ordVars, tickVars, sigVars, stratVars, exitVars, entryVars, execVars, txnVars, addVars, cliVars, pobjVars, saveVars, wireVars, jmVars, loopVars, dataVars>>

InitMock == MockIdle /\ BusInit /\ PosIdle /\ OrdIdle /\ TickIdle /\ SigIdle /\ StratIdle /\ ExitIdle /\ EntryIdle /\ ExecIdle /\ TxnIdle /\ AddIdle /\ CliIdle /\ PobjIdle /\ SaveIdle /\ WireIdle /\ JmIdle /\ LoopIdle /\ DataIdle

NextMock ==
    \/ \E asset \in Assets, amount \in Amounts : Pay(asset, amount) /\ MockOnly
    \/ \E asset \in Assets, amount \in Amounts : Gain(asset, amount) /\ MockOnly

SpecMock == InitMock /\ [][NextMock]_vars

--------------------------------------------------------------------------
(* TradingStorage.save_position interleaved with Position.update_position
   on one position: persistence/storage.py, portfolio/position.py.  Both are
   synchronous from entry to exit (save_position has no await), so each is one
   step. *)

\* What a save_position call can meet: the database session or the lookup
\* fails before the transactions are read, the commit fails, or all succeeds.
SaveOutcomes == {"ok", "commit_error", "error_before"}

\* get_unsaved_transactions that returns the whole history.
GetUnsavedTransactionsAll(p) == p.transaction_history

\* Position.get_unsaved_transactions: transaction_history[_save_transaction_count:]
GetUnsavedTransactions(p) ==
    SubSeq(p.transaction_history, p.save_transaction_count + 1, Len(p.transaction_history))

\* Position.mark_transactions_as_saved
MarkTransactionsAsSaved(p, count) ==
    [p EXCEPT !.save_transaction_count = @ + count]

\* TradingStorage.save_position(PositionEvent(position = pobj))
SavePosition(outcome) ==
    LET unsaved_transactions == GetUnsavedTransactions(pobj)
        call == [outcome |-> outcome, cursor |-> pobj.save_transaction_count,
                 n |-> Len(pobj.transaction_history)]
    IN  /\ save_call' = <<call>>
        /\ IF outcome = "error_before"
             THEN UNCHANGED <<pobj, handed, committed>>
             ELSE /\ handed' = handed \o unsaved_transactions
                  /\ pobj' = MarkTransactionsAsSaved(pobj, Len(unsaved_transactions))
                  /\ committed' = IF outcome = "ok"
                                    THEN committed \o unsaved_transactions
                                    ELSE committed
        /\ UNCHANGED pcall

\* The executed orders fed to update_position: either symbol and side, one fill.
SaveItems == {item \in BatchItems : Len(item.fills) = 1}

SaveOnly == UNCHANGED <<busVars, posVars, ordVars, tickVars, sigVars, stratVars, exitVars, entryVars, execVars, txnVars, addVars, cliVars, mockVars, wireVars, jmVars, loopVars, dataVars>>

InitSave == PobjInit /\ SaveIdle /\ BusInit /\ PosIdle /\ OrdIdle /\ TickIdle /\ SigIdle /\ StratIdle /\ ExitIdle /\ EntryIdle /\ ExecIdle /\ TxnIdle /\ AddIdle /\ CliIdle /\ MockIdle /\ WireIdle /\ JmIdle /\ LoopIdle /\ DataIdle

NextSave ==
    \/ \E item \in SaveItems : PositionUpdateCall(item) /\ UNCHANGED saveVars /\ SaveOnly
    \/ \E outcome \in SaveOutcomes : SavePosition(outcome) /\ SaveOnly

SpecSave == InitSave /\ [][NextSave]_vars

--------------------------------------------------------------------------
(* The handlers of setup_backtest_subscribers from one MarketDataEvent to
   the next: core/bus/subscribers.py.  on_market_data publishes the
   SignalEvent, publish_orders the OrderCreatedEvent, execute_order one
   TransactionClosedEvent per order, and each of these is handled by
   Portfolio.update_position and Strategy.update_position. *)

\* The hedge ratios of the fitted model: long the first symbol, short the second.
WireHedgeRatio ==
    <<[symbol |-> "BTCUSDC", hedge_ratio |-> 1], [symbol |-> "ETHUSDC", hedge_ratio |-> -1]>>

\* What becomes of the orders of a signal: the filters abandon the batch,
\* the exchange fills every order, or an exchange call raises.
WireOutcomes == {"abandoned", "filled", "exchange_error"}

\* The orders publish_orders prepares for a decision.
WireOrders(decision) ==
    IF decision = "EXIT"
      THEN PrepareExitOrders(open_positions, positions, DOMAIN open_positions)
      ELSE EntryOrders(decision, WireHedgeRatio, 1, 1).orders

\* The driver publishes a MarketDataEvent; on_market_data fits if needed,
\* estimates and publishes the SignalEvent.  A fit that raises ends the run.
WireMarketData(fit_ok, zscore) ==
    /\ wire.pc = "idle"
    /\ StrategyOnMarketData(fit_ok, zscore)
    /\ wire' = [wire EXCEPT !.pc = IF ~is_fitted /\ ~fit_ok THEN "failed" ELSE "signalled"]
    /\ UNCHANGED posVars

\* publish_orders and execute_order for the SignalEvent: HOLD returns, a
\* batch below the minimums is abandoned, an empty batch or an exchange
\* error raises, otherwise every order is executed and one
\* TransactionClosedEvent per order is published.
WirePublishOrders(outcome, batch) ==
    /\ wire.pc = "signalled"
    /\ LET decision == signal_event[1].signal
           orders == WireOrders(decision)
       IN  IF decision = "HOLD" \/ (outcome = "abandoned" /\ orders # <<>>)
             THEN /\ wire' = [wire EXCEPT !.pc = "idle"]
                  /\ UNCHANGED posVars
           ELSE IF orders = <<>> \/ outcome = "exchange_error"
             THEN /\ wire' = [wire EXCEPT !.pc = "failed"]
                  /\ UNCHANGED posVars
           ELSE /\ Len(batch) = Len(orders)
                /\ \A i \in 1..Len(orders) :
                      /\ batch[i].symbol = orders[i].symbol
                      /\ batch[i].side = orders[i].side
                /\ PublishTransactions(batch)
                /\ wire' = [pc |-> "executing", pending |-> Len(batch),
                            last_entry |-> IF decision = "EXIT" THEN wire.last_entry
                                           ELSE decision]
    /\ UNCHANGED <<sigVars, stratVars>>

\* Portfolio.update_position for a TransactionClosedEvent of the batch.
WireUpdStart(i) ==
    /\ wire.pc = "executing"
    /\ UpdStart(i)
    /\ UNCHANGED <<wire, sigVars, stratVars>>

WireUpdResume(i) ==
    /\ wire.pc = "executing"
    /\ UpdResume(i)
    /\ UNCHANGED <<wire, sigVars, stratVars>>

\* Strategy.update_position for a TransactionClosedEvent of the batch.
WireStrategyUpdate ==
    /\ wire.pc = "executing" /\ wire.pending > 0
    /\ StrategyUpdatePosition
    /\ wire' = [wire EXCEPT !.pending = @ - 1]
    /\ UNCHANGED posVars

\* Every handler of the tick has ended: publish returns to the driver, or
\* raises in it when a handler has failed.
WireTickEnd ==
    /\ wire.pc = "executing" /\ wire.pending = 0 /\ UpdSettled
    /\ wire' = [wire EXCEPT !.pc = IF \E i \in 1..Len(upd) : upd[i].pc = "failed"
                                     THEN "failed" ELSE "idle"]
    /\ UNCHANGED <<posVars, sigVars, stratVars>>

WireOnly == UNCHANGED <<busVars, ordVars, tickVars, exitVars, entryVars, execVars, txnVars, addVars, cliVars, pobjVars, mockVars, saveVars, jmVars, loopVars, dataVars>>

InitWire == WireIdle /\ PosInit /\ StratInit /\ SigIdle /\ BusInit /\ OrdIdle /\ TickIdle /\ ExitIdle /\ EntryIdle /\ ExecIdle /\ TxnIdle /\ AddIdle /\ CliIdle /\ PobjIdle /\ MockIdle /\ SaveIdle /\ JmIdle /\ LoopIdle /\ DataIdle

NextWire ==
    \/ \E ok \in BOOLEAN, z \in ZScores : WireMarketData(ok, z) /\ WireOnly
    \/ \E o \in WireOutcomes, batch \in Batches : WirePublishOrders(o, batch) /\ WireOnly
    \/ \E i \in 1..MaxBatch : WireUpdStart(i) /\ WireOnly
    \/ \E i \in 1..MaxBatch : WireUpdResume(i) /\ WireOnly
    \/ WireStrategyUpdate /\ WireOnly
    \/ WireTickEnd /\ WireOnly

SpecWire == InitWire /\ [][NextWire]_vars

--------------------------------------------------------------------------
(* JohansenCointegrationModel.fit and estimate: strategy/johansen_model.py.
   A hedge-ratio vector is normalised to first component 1 and stands here
   as the list of its components; an attribute that is None or not set is
   the empty tuple. *)

\* Normalised eigenvectors coint_johansen may answer for two assets.
HedgeVectors == {<<1, -2>>, <<1, -1>>, <<1, 2>>}

\* Half lives __half_life__ may answer.
HalfLives == {1, 2}

\* fit: the Johansen test raises, the half life cannot be computed, or all succeeds.
FitOutcomes == {"ok", "johansen_error", "half_life_error"}

\* fit(data, symbols): lines 89-97 in order; an exception leaves what was
\* assigned before it.
JohansenFit(outcome, vector, half_life) ==
    /\ jm' = IF outcome = "johansen_error" THEN jm
             ELSE [jm EXCEPT !.num_assets = Some(Len(vector)),
                             !.hedge_ratio = Some(vector),
                             !.half_life_window = IF outcome = "ok" THEN Some(half_life)
                                                  ELSE @]
    /\ jm_call' = <<[op |-> "fit", outcome |-> outcome, vector |-> <<>>, window |-> <<>>]>>

\* The vector estimate multiplies the data with: _vec_hedge_ratio, built
\* from _hedge_ratio only while the attribute does not exist.
VecHedgeRatio(m) ==
    IF m.vec_hedge_ratio = None THEN m.hedge_ratio ELSE m.vec_hedge_ratio

\* estimate(data): the two None checks, the vector, the spread window.
JohansenEstimate ==
    IF jm.hedge_ratio = None \/ jm.half_life_window = None
      THEN /\ jm_call' = <<[op |-> "estimate", outcome |-> "ValueError",
                            vector |-> <<>>, window |-> <<>>]>>
           /\ UNCHANGED jm
      ELSE /\ jm' = [jm EXCEPT !.vec_hedge_ratio = VecHedgeRatio(jm)]
           /\ jm_call' = <<[op |-> "estimate", outcome |-> "ok",
                            vector |-> VecHedgeRatio(jm),
                            window |-> jm.half_life_window]>>

\* JohansenCointegrationModel(hedge_ratio, num_assets, half_life_window):
\* the defaults, or a model given its ratios and window.
JmInit ==
    /\ jm \in [hedge_ratio : {None} \cup {Some(v) : v \in HedgeVectors},
               num_assets : {None},
               half_life_window : {None} \cup {Some(h) : h \in HalfLives},
               vec_hedge_ratio : {None}]
    /\ jm_call = <<>>

JmOnly == UNCHANGED <<busVars, posVars, ordVars, tickVars, sigVars, stratVars, exitVars, entryVars, execVars, txnVars, addVars, cliVars, pobjVars, mockVars, saveVars, wireVars, loopVars, dataVars>>

InitJm == JmInit /\ BusInit /\ PosIdle /\ OrdIdle /\ TickIdle /\ SigIdle /\ StratIdle /\ ExitIdle /\ EntryIdle /\ ExecIdle /\ TxnIdle /\ AddIdle /\ CliIdle /\ PobjIdle /\ MockIdle /\ SaveIdle /\ WireIdle /\ LoopIdle /\ DataIdle

NextJm ==
    \/ \E o \in FitOutcomes, v \in HedgeVectors, h \in HalfLives : JohansenFit(o, v, h) /\ JmOnly
    \/ JohansenEstimate /\ JmOnly

SpecJm == InitJm /\ [][NextJm]_vars

--------------------------------------------------------------------------
(* The tasks of one backtest run without failures: cli/backtest.py,
   core/bus/event_bus.py, core/bus/subscribers.py.  EventBus.publish creates
   one task per subscribed handler and awaits gather over them; every
   handler awaits the publish it makes.  A task is ready (created, not yet
   run), suspended (in a call of the client), awaiting (in gather over its
   children) or done.  parent is the index of the task that awaits it, 0 for
   the driver. *)

NewTask(kind, parent, arg) == [kind |-> kind, parent |-> parent, pc |-> "ready", arg |-> arg]

\* gather that returns as soon as one awaited task is done.
GatherDoneAny(ts, parent) ==
    \E j \in 1..Len(ts) : ts[j].parent = parent /\ ts[j].pc = "done"

\* await gather(*tasks): every task created for the parent is done.
GatherDone(ts, parent) ==
    \A j \in 1..Len(ts) : ts[j].parent = parent => ts[j].pc = "done"

\* Tasks take their first step in creation order.
FirstReady(i) ==
    /\ i \in 1..Len(loop_tasks) /\ loop_tasks[i].pc = "ready"
    /\ \A j \in 1..(i - 1) : loop_tasks[j].pc # "ready"

\* for market_data in client.get_mock_data(...): await EventBus.publish(
\* MarketDataEvent, ...): the tasks of on_market_data and update_account_size.
DriverPublish ==
    /\ driver = "idle" /\ loop_tick < MaxTicks
    /\ loop_tick' = loop_tick + 1
    /\ left_running' = Cardinality({j \in 1..Len(loop_tasks) : loop_tasks[j].pc # "done"})
    /\ loop_tasks' = <<NewTask("on_market_data", 0, 0), NewTask("update_account_size", 0, 0)>>
    /\ event_log' = <<"MarketDataEvent">>
    /\ driver' = "awaiting"
    /\ UNCHANGED with_storage

\* The driver resumed by gather: the loop goes on, or ends after the last window.
DriverWake ==
    /\ driver = "awaiting"
    /\ GatherDone(loop_tasks, 0)
    /\ driver' = IF loop_tick = MaxTicks THEN "finished" ELSE "idle"
    /\ UNCHANGED <<loop_tasks, event_log, loop_tick, left_running, with_storage>>

\* Strategy.on_market_data: generate_signal publishes the SignalEvent.
OnMarketDataTask(i, decision) ==
    /\ FirstReady(i) /\ loop_tasks[i].kind = "on_market_data"
    /\ event_log' = Append(event_log, "SignalEvent")
    /\ loop_tasks' = Append([loop_tasks EXCEPT ![i].pc = "awaiting"],
                            NewTask("publish_orders", i, decision))
    /\ UNCHANGED <<loop_tick, driver, left_running, with_storage>>

\* Portfolio.update_account_size: get_margin_account suspends or not.
UpdateAccountSizeTask(i, suspending) ==
    /\ FirstReady(i) /\ loop_tasks[i].kind = "update_account_size"
    /\ loop_tasks' = [loop_tasks EXCEPT ![i].pc = IF suspending THEN "suspended" ELSE "done"]
    /\ UNCHANGED <<event_log, loop_tick, driver, left_running, with_storage>>

\* Portfolio.publish_orders: HOLD returns, a batch below the minimums is
\* abandoned, otherwise the OrderCreatedEvent with n orders is published.
PublishOrdersTask(i, abandoned, n) ==
    /\ FirstReady(i) /\ loop_tasks[i].kind = "publish_orders"
    /\ IF loop_tasks[i].arg = "HOLD" \/ abandoned
         THEN /\ loop_tasks' = [loop_tasks EXCEPT ![i].pc = "done"]
              /\ UNCHANGED event_log
         ELSE /\ event_log' = Append(event_log, "OrderCreatedEvent")
              /\ loop_tasks' = Append([loop_tasks EXCEPT ![i].pc = "awaiting"],
                                      NewTask("execute_order", i, n))
    /\ UNCHANGED <<loop_tick, driver, left_running, with_storage>>

\* OrderExecutor.execute_order up to gather over the create_margin_order calls.
ExecuteOrderTask(i) ==
    /\ FirstReady(i) /\ loop_tasks[i].kind = "execute_order"
    /\ loop_tasks' = [loop_tasks EXCEPT ![i].pc = "suspended"]
    /\ UNCHANGED <<event_log, loop_tick, driver, left_running, with_storage>>

\* A suspended call of the client answers: update_account_size ends;
\* execute_order goes on to publish_transactions, one task per transaction.
ClientAnswers(i) ==
    /\ i \in 1..Len(loop_tasks) /\ loop_tasks[i].pc = "suspended"
    /\ \A j \in 1..Len(loop_tasks) : loop_tasks[j].pc # "ready"
    /\ IF loop_tasks[i].kind = "update_account_size"
         THEN loop_tasks' = [loop_tasks EXCEPT ![i].pc = "done"]
         ELSE loop_tasks' = [loop_tasks EXCEPT ![i].pc = "awaiting"]
                              \o [k \in 1..loop_tasks[i].arg |->
                                    NewTask("publish_transaction", i, 0)]
    /\ UNCHANGED <<event_log, loop_tick, driver, left_running, with_storage>>

\* create_task(EventBus.publish(TransactionClosedEvent, tce)): the tasks of
\* portfolio.update_position and strategy.update_position.
PublishTransactionTask(i) ==
    /\ FirstReady(i) /\ loop_tasks[i].kind = "publish_transaction"
    /\ event_log' = Append(event_log, "TransactionClosedEvent")
    /\ loop_tasks' = [loop_tasks EXCEPT ![i].pc = "awaiting"]
                       \o <<NewTask("portfolio.update_position", i, 0),
                            NewTask("strategy.update_position", i, 0)>>
    /\ UNCHANGED <<loop_tick, driver, left_running, with_storage>>

\* Portfolio.update_position: the position is updated and its PositionEvent
\* published, to save_position if storage is subscribed.
PortfolioUpdateTask(i) ==
    /\ FirstReady(i) /\ loop_tasks[i].kind = "portfolio.update_position"
    /\ event_log' = Append(event_log, "PositionEvent")
    /\ loop_tasks' = IF with_storage
                       THEN Append([loop_tasks EXCEPT ![i].pc = "awaiting"],
                                   NewTask("save_position", i, 0))
                       ELSE [loop_tasks EXCEPT ![i].pc = "done"]
    /\ UNCHANGED <<loop_tick, driver, left_running, with_storage>>

\* Strategy.update_position: the generator is updated, nothing is published.
StrategyUpdateTask(i) ==
    /\ FirstReady(i) /\ loop_tasks[i].kind = "strategy.update_position"
    /\ loop_tasks' = [loop_tasks EXCEPT ![i].pc = "done"]
    /\ UNCHANGED <<event_log, loop_tick, driver, left_running, with_storage>>

\* TradingStorage.save_position: no await, nothing is published.
SavePositionTask(i) ==
    /\ FirstReady(i) /\ loop_tasks[i].kind = "save_position"
    /\ loop_tasks' = [loop_tasks EXCEPT ![i].pc = "done"]
    /\ UNCHANGED <<event_log, loop_tick, driver, left_running, with_storage>>

\* A handler resumed by the gather of the publish it awaits: it returns.
HandlerWake(i) ==
    /\ i \in 1..Len(loop_tasks) /\ loop_tasks[i].pc = "awaiting"
    /\ GatherDone(loop_tasks, i)
    /\ loop_tasks' = [loop_tasks EXCEPT ![i].pc = "done"]
    /\ UNCHANGED <<event_log, loop_tick, driver, left_running, with_storage>>

\* The tasks one tick creates at most: four handlers, and per order the
\* publish of its transaction and three handlers.
MaxLoopTasks == 4 + 4 * MaxLegs

\* setup_backtest_subscribers with or without storage.
LoopInit ==
    /\ loop_tasks = <<>>
    /\ event_log = <<>>
    /\ loop_tick = 0
    /\ driver = "idle"
    /\ left_running = 0
    /\ with_storage \in BOOLEAN

LoopOnly == UNCHANGED <<busVars, posVars, ordVars, tickVars, sigVars, stratVars, exitVars, entryVars, execVars, txnVars, addVars, cliVars, pobjVars, mockVars, saveVars, wireVars, jmVars, dataVars>>

InitLoop == LoopInit /\ BusInit /\ PosIdle /\ OrdIdle /\ TickIdle /\ SigIdle /\ StratIdle /\ ExitIdle /\ EntryIdle /\ ExecIdle /\ TxnIdle /\ AddIdle /\ CliIdle /\ PobjIdle /\ MockIdle /\ SaveIdle /\ WireIdle /\ JmIdle /\ DataIdle

NextLoop ==
    \/ DriverPublish /\ LoopOnly
    \/ DriverWake /\ LoopOnly
    \/ \E i \in 1..MaxLoopTasks, d \in StrategyDecisions : OnMarketDataTask(i, d) /\ LoopOnly
    \/ \E i \in 1..MaxLoopTasks, b \in BOOLEAN : UpdateAccountSizeTask(i, b) /\ LoopOnly
    \/ \E i \in 1..MaxLoopTasks, b \in BOOLEAN, n \in 1..MaxLegs : PublishOrdersTask(i, b, n) /\ LoopOnly
    \/ \E i \in 1..MaxLoopTasks : ExecuteOrderTask(i) /\ LoopOnly
    \/ \E i \in 1..MaxLoopTasks : ClientAnswers(i) /\ LoopOnly
    \/ \E i \in 1..MaxLoopTasks : PublishTransactionTask(i) /\ LoopOnly
    \/ \E i \in 1..MaxLoopTasks : PortfolioUpdateTask(i) /\ LoopOnly
    \/ \E i \in 1..MaxLoopTasks : StrategyUpdateTask(i) /\ LoopOnly
    \/ \E i \in 1..MaxLoopTasks : SavePositionTask(i) /\ LoopOnly
    \/ \E i \in 1..MaxLoopTasks : HandlerWake(i) /\ LoopOnly

SpecLoop == InitLoop /\ [][NextLoop]_vars

--------------------------------------------------------------------------
(* MockClient.get_mock_data: clients/mock.py.  The series of a symbol is
   its rows 1..len; a window is, per symbol, the sequence of the rows of the
   slice. *)

MaxData == 3       \* rows of a series
MaxLimit == 2      \* limit of the lookback request

\* data[start:stop] of a series of len rows, as Python slices it.
Slice(len, start, stop) ==
    LET lo == IF start < 0 THEN Max(len + start, 0) ELSE IF start > len THEN len ELSE start
        hi == IF stop < 0 THEN Max(len + stop, 0) ELSE IF stop > len THEN len ELSE stop
    IN  [k \in 1..(hi - lo) |-> lo + k]

\* The loop test that lets the pointer reach the length and go one beyond.
HasNextWindowInclusive(pt, n) == pt <= n

\* while self._current_pt < self._len_data
HasNextWindow(pt, n) == pt < n

\* One next() on the generator.  The first runs the two checks; each runs
\* the loop test, advances the pointer and yields the window of every
\* symbol, or ends the generator.
MockDataNext ==
    /\ mock_gen.pc \in {"created", "running"}
    /\ IF mock_gen.pc = "created" /\ (DOMAIN mock_data = {} \/ current_pt < mock_gen.limit)
         THEN /\ mock_gen' = [mock_gen EXCEPT !.pc = "raised"]
              /\ UNCHANGED current_pt
       ELSE IF HasNextWindow(current_pt, len_data)
         THEN /\ current_pt' = current_pt + 1
              /\ mock_gen' = [mock_gen EXCEPT
                    !.pc = "running",
                    !.yielded = Append(@,
                       [sym \in DOMAIN mock_data |->
                          Slice(mock_data[sym], current_pt' - mock_gen.limit, current_pt')])]
         ELSE /\ mock_gen' = [mock_gen EXCEPT !.pc = "exhausted"]
              /\ UNCHANGED current_pt
    /\ UNCHANGED <<mock_data, len_data>>

\* A client without data or with the series of both symbols (the length of
\* the first one is _len_data, the second may be a row shorter), a pointer
\* set by set_current_pointer and a generator made for a limit.
DataInit ==
    /\ len_data \in 0..MaxData
    /\ mock_data \in {EmptyDict} \cup
          {[sym \in SymbolNames |-> IF sym = "BTCUSDC" THEN len_data ELSE m] :
              m \in {len_data, Max(len_data - 1, 0)}}
    /\ current_pt \in 0..(MaxData + 1)
    /\ mock_gen \in [pc : {"created"}, limit : 0..MaxLimit, p0 : {current_pt},
                     yielded : {<<>>}]

DataOnly == UNCHANGED <<busVars, posVars, ordVars, tickVars, sigVars, stratVars, exitVars, entryVars, execVars, txnVars, addVars, cliVars, pobjVars, mockVars, saveVars, wireVars, jmVars, loopVars>>

InitData == DataInit /\ BusInit /\ PosIdle /\ OrdIdle /\ TickIdle /\ SigIdle /\ StratIdle /\ ExitIdle /\ EntryIdle /\ ExecIdle /\ TxnIdle /\ AddIdle /\ CliIdle /\ PobjIdle /\ MockIdle /\ SaveIdle /\ WireIdle /\ JmIdle /\ LoopIdle

NextData == MockDataNext /\ DataOnly

SpecData == InitData /\ [][NextData]_vars

--------------------------------------------------------------------------
(* Claims about Position and Portfolio.update_position, checked under Spec *)

RECURSIVE HistoryQuote(_)
HistoryQuote(h) ==
    IF h = <<>> THEN 0 ELSE SumQuote(Head(h).fills) + HistoryQuote(Tail(h))

Direction(tx) == IF tx.order.side = "BUY" THEN "LONG" ELSE "SHORT"

OnlyEntries(p) ==
    \A k \in 1..Len(p.transaction_history) :
        Direction(p.transaction_history[k]) = p.position_direction

\* C1: after every same-direction entry applied through
\* Position.update_position, entry_price equals the quote notional
\* accumulated over all entry fills so far divided by |size|.
C1_Claim ==
    \A pid \in DOMAIN positions :
        LET p == positions[pid]
        IN  (p.has_direction /\ ~p.is_closed /\ OnlyEntries(p) /\ p.size # 0) =>
                p.entry_price = Rat(HistoryQuote(p.transaction_history), Abs(p.size))

\* C2: a closed Position has pnl = (exit_price - entry_price) * size, and no
\* later TransactionClosedEvent processed by Portfolio.update_position
\* changes its pnl, exit_price, size or is_closed.
C2_Claim ==
    [][\A pid \in DOMAIN positions :
          positions[pid].is_closed =>
              /\ positions[pid].pnl =
                    RatMulInt(RatSub(positions[pid].exit_price,
                                     positions[pid].entry_price), positions[pid].size)
              /\ positions'[pid].pnl = positions[pid].pnl
              /\ positions'[pid].exit_price = positions[pid].exit_price
              /\ positions'[pid].size = positions[pid].size
              /\ positions'[pid].is_closed]_vars

IsPrefix(a, b) == Len(a) <= Len(b) /\ \A k \in 1..Len(a) : a[k] = b[k]

\* C3: a transaction whose direction differs from the open position's
\* direction closes that Position, which leaves open_positions and is
\* appended at the end of closed_positions[symbol]; the next transaction on
\* the symbol goes to a newly created Position (a closed Position receives
\* no further transaction), and closed_positions lists only ever grow.
C3_Step ==
    /\ \A pid \in DOMAIN positions :
        LET p == positions[pid]
            q == positions'[pid]
        IN  /\ p.is_closed => q.transaction_history = p.transaction_history
            /\ (~p.is_closed /\ Len(q.transaction_history) > Len(p.transaction_history)
                  /\ p.has_direction
                  /\ Direction(q.transaction_history[Len(q.transaction_history)])
                        # p.position_direction)
               => q.is_closed
    /\ \A sym \in DOMAIN closed_positions :
        /\ sym \in DOMAIN closed_positions'
        /\ IsPrefix(closed_positions[sym], closed_positions'[sym])
    /\ \A i \in 1..Len(upd) :
        (upd[i].pc # "done" /\ Len(upd') = Len(upd) /\ upd'[i].pc = "done") =>
           LET sym == upd[i].ev.transaction.order.symbol
           IN  \A pid \in DOMAIN positions' :
                  (positions'[pid].symbol = sym /\ positions'[pid].is_closed) =>
                      /\ \A s \in DOMAIN open_positions' : open_positions'[s] # pid
                      /\ sym \in DOMAIN closed_positions'
                      /\ \E k \in 1..Len(closed_positions'[sym]) :
                            closed_positions'[sym][k] = pid

C3_Claim == [][C3_Step]_vars

C7_Claim ==
    \A i, j \in 1..Len(upd) :
        (i # j /\ upd[i].ev.transaction.order.symbol = upd[j].ev.transaction.order.symbol)
            => ~(upd[i].pc = "awaiting" /\ upd[j].pc = "awaiting")

--------------------------------------------------------------------------
(* Claims about the event bus, checked under SpecBus *)

\* C8: EventBus.publish(T, e) invokes every handler registered for T exactly
\* once per registration with e, and returns normally only after every one
\* of those handlers has completed.
C8_PublishInvokesAllAndWaits ==
    [][(pub.state = "awaiting" /\ pub'.state = "returned") =>
          /\ pub.type \in DOMAIN handlers
          /\ Len(tasks') = Len(handlers[pub.type])
          /\ Len(calls') = Len(handlers[pub.type])
          /\ \A i \in 1..Len(handlers[pub.type]) :
                /\ calls'[i] = <<handlers[pub.type][i], pub.data>>
                /\ tasks'[i].handler = handlers[pub.type][i]
                /\ tasks'[i].data = pub.data
                /\ tasks'[i].st = "done"]_vars

\* A publish over a handler registered twice has returned normally: both
\* registrations were invoked and both finished.
C8_Witness ==
    /\ pub.state = "returned"
    /\ pub.type \in DOMAIN handlers
    /\ Len(tasks) = 2 /\ Len(handlers[pub.type]) = 2
    /\ handlers[pub.type][1] = handlers[pub.type][2]
    /\ calls = <<(<<handlers[pub.type][1], pub.data>>), (<<handlers[pub.type][1], pub.data>>)>>
    /\ \A i \in 1..2 : tasks[i].st = "done"

\* C9: when a handler raises during EventBus.publish, the exception reaches
\* the publisher only once all handlers of that event have settled, and no
\* sibling handler is cancelled because of the failure.
C9_Claim ==
    pub.state = "raised" =>
        /\ AllSettled(tasks)
        /\ \A i \in 1..Len(tasks) : tasks[i].st # "cancelled"

\* C10: EventBus.publish for an event type with zero subscribers raises no
\* error, invokes no handler and leaves the handler registry unchanged,
\* each time it is called.
C10_PublishNoSubscribersNoOp ==
    [][\A t \in EventTypes, e \in Data :
          (t \notin DOMAIN handlers /\ Publish(t, e)) =>
              /\ handlers' = handlers
              /\ tasks' = tasks
              /\ calls' = calls
              /\ pub'.state = "returned"]_vars

\* A publish of an unsubscribed type has returned while another type has
\* subscribers and the log of an earlier dispatch is still in place.
C10_Witness ==
    /\ pub.state = "returned"
    /\ pub.type \notin DOMAIN handlers
    /\ handlers # EmptyDict
    /\ calls # <<>>
    /\ AllSettled(tasks)


--------------------------------------------------------------------------
(* Order filtering: checked under SpecOrders *)

PoFinished == po.pc \in {"returned", "raised"}

SomeLegBelowMinimum == \E i \in 1..Len(flt) : flt[i].err \in MinErrors

\* C5 as stated: once publish_orders has finished a batch of several legs
\* of which at least one failed filter_order with the minimum-quantity or
\* the minimum-notional condition, no OrderCreatedEvent was published and
\* publish_orders returned without raising.
C5_Claim ==
    (PoFinished /\ Len(flt) >= 2 /\ SomeLegBelowMinimum)
        => (published = <<>> /\ po.pc = "returned")

\* C5 amended: in such a batch no OrderCreatedEvent is published, and
\* publish_orders returns without raising exactly when the first leg
\* failure to reach it is a below-minimum condition; a different failure
\* that reaches it first (untracked symbol, exchange error) is raised.
C5_BatchAbandoned ==
    (PoFinished /\ Len(flt) >= 2 /\ SomeLegBelowMinimum)
        => /\ published = <<>>
           /\ po.firstErr # "none"
           /\ (po.pc = "returned") <=> (po.firstErr \in MinErrors)

\* A two-leg batch with one leg filtered successfully and the other
\* below the minimum notional was abandoned without raising.
C5_Witness ==
    /\ po.pc = "returned" /\ Len(flt) = 2 /\ published = <<>>
    /\ \E i, j \in 1..2 :
          /\ flt[i].pc = "done"
          /\ flt[j].err = "BinanceOrderMinTotalException"



--------------------------------------------------------------------------
(* Account-size rendezvous: checked under SpecTick *)

\* C6: every leverage_sizing call made while tick k is processed reads
\* an account_size that the update_account_size run of tick k wrote.
C6_Claim ==
    \A i \in 1..Len(sizings) : sizings[i].written_at = sizings[i].tick


--------------------------------------------------------------------------
(* Signal generator: checked under SpecSignal.  While emitted is set,
   position and the thresholds are what generate_signal saw. *)

\* The four triggers of the transition table for the current state.
ShortEntry(z) == position = "IDLE" /\ z > entry_threshold
LongEntry(z) == position = "IDLE" /\ z < -entry_threshold
ShortExit(z) == position = "SHORT" /\ z < exit_threshold
LongExit(z) == position = "LONG" /\ z > -exit_threshold

\* C11 as stated: every row of the transition table gives the decision
\* of generate_signal, and no row applying gives HOLD.
C11_Claim ==
    emitted # <<>> =>
      LET z == emitted[1].zscore
          s == emitted[1].signal
      IN  /\ ShortEntry(z) => s = (IF long_only THEN "HOLD" ELSE "SHORT")
          /\ LongEntry(z) => s = "LONG"
          /\ ShortExit(z) => s = (IF long_only THEN "HOLD" ELSE "EXIT")
          /\ LongExit(z) => s = "EXIT"
          /\ ~(ShortEntry(z) \/ LongEntry(z) \/ ShortExit(z) \/ LongExit(z))
                => s = "HOLD"

\* C11 amended: the same table, the row IDLE and z < -entry giving LONG
\* only when z > entry does not hold as well (both hold for some z when the
\* entry threshold is negative, and then the first row decides).
C11_TransitionTable ==
    emitted # <<>> =>
      LET z == emitted[1].zscore
          s == emitted[1].signal
      IN  /\ ShortEntry(z) => s = (IF long_only THEN "HOLD" ELSE "SHORT")
          /\ (LongEntry(z) /\ ~ShortEntry(z)) => s = "LONG"
          /\ ShortExit(z) => s = (IF long_only THEN "HOLD" ELSE "EXIT")
          /\ LongExit(z) => s = "EXIT"
          /\ ~(ShortEntry(z) \/ LongEntry(z) \/ ShortExit(z) \/ LongExit(z))
                => s = "HOLD"

\* A long_only generator in state IDLE answered HOLD to a z-score above
\* the entry threshold.
C11_Witness ==
    /\ emitted # <<>> /\ long_only /\ position = "IDLE"
    /\ emitted[1].zscore > entry_threshold
    /\ emitted[1].signal = "HOLD"

\* A z-score exactly on the threshold that triggers from the current state.
OnThreshold(z) ==
    \/ position = "IDLE" /\ (z = entry_threshold \/ z = -entry_threshold)
    \/ position = "SHORT" /\ z = exit_threshold
    \/ position = "LONG" /\ z = -exit_threshold

\* C12 as stated: a z-score equal to a threshold gives HOLD, one strictly
\* beyond it gives the LONG, SHORT or EXIT of that threshold.
C12_Claim ==
    emitted # <<>> =>
      LET z == emitted[1].zscore
          s == emitted[1].signal
      IN  /\ OnThreshold(z) => s = "HOLD"
          /\ ShortEntry(z) => s = "SHORT"
          /\ LongEntry(z) => s = "LONG"
          /\ ShortExit(z) => s = "EXIT"
          /\ LongExit(z) => s = "EXIT"

\* C12 amended: with an entry threshold that is not negative, a z-score
\* equal to a threshold gives HOLD and one strictly beyond it gives the
\* LONG, SHORT or EXIT of that threshold, except that a long_only generator
\* gives HOLD beyond the SHORT entry and beyond the exit from SHORT.
C12_BoundaryHolds ==
    (emitted # <<>> /\ entry_threshold >= 0) =>
      LET z == emitted[1].zscore
          s == emitted[1].signal
      IN  /\ OnThreshold(z) => s = "HOLD"
          /\ ShortEntry(z) => s = (IF long_only THEN "HOLD" ELSE "SHORT")
          /\ LongEntry(z) => s = "LONG"
          /\ ShortExit(z) => s = (IF long_only THEN "HOLD" ELSE "EXIT")
          /\ LongExit(z) => s = "EXIT"

\* A generator in state LONG with a positive exit threshold answered HOLD
\* to the z-score equal to minus that threshold.
C12_Witness ==
    /\ emitted # <<>> /\ position = "LONG" /\ exit_threshold > 0
    /\ emitted[1].zscore = -exit_threshold
    /\ emitted[1].signal = "HOLD"

\* C13: a generate_signal call leaves position, both thresholds and
\* long_only as they were, and position changes in update_position only.
C13_Step ==
    /\ op'.name = "generate_signal" =>
          /\ position' = position
          /\ entry_threshold' = entry_threshold
          /\ exit_threshold' = exit_threshold
          /\ long_only' = long_only
    /\ position' # position => op'.name = "update_position"

C13_GenerateSignalIsPure == [][C13_Step]_vars

\* generate_signal has just emitted SHORT and the state is still IDLE.
C13_Witness ==
    /\ op.name = "generate_signal" /\ emitted # <<>>
    /\ emitted[1].signal = "SHORT" /\ position = "IDLE"

\* The z-scores of the scenario, in tenths.
ScenarioZScores == <<15, -1, -15>>

\* C14: update_position moves the state to LONG on LONG, to SHORT on
\* SHORT, to IDLE on EXIT and not at all on HOLD; and a generator with
\* entry 1.0 and exit 0.0 that is fed each emitted signal back and sees the
\* z-scores 1.5, -0.1, -1.5 emits SHORT, EXIT, LONG and passes through
\* SHORT, IDLE, LONG.
C14_UpdatePositionDrivesState ==
    /\ op.name = "update_position" =>
          position = (CASE op.arg = "LONG" -> "LONG"
                        [] op.arg = "SHORT" -> "SHORT"
                        [] op.arg = "EXIT" -> "IDLE"
                        [] OTHER -> op.before)
    /\ ( /\ entry_threshold = 10 /\ exit_threshold = 0 /\ ~long_only
         /\ feedback
         /\ [i \in 1..Len(rounds) |-> rounds[i].zscore] = ScenarioZScores )
       => /\ [i \in 1..3 |-> rounds[i].signal] = <<"SHORT", "EXIT", "LONG">>
          /\ [i \in 1..3 |-> rounds[i].position] = <<"SHORT", "IDLE", "LONG">>

\* The scenario has been played to its end.
C14_Witness ==
    /\ entry_threshold = 10 /\ exit_threshold = 0 /\ ~long_only /\ feedback
    /\ [i \in 1..Len(rounds) |-> rounds[i].zscore] = ScenarioZScores
    /\ position = "LONG"


--------------------------------------------------------------------------
(* Strategy: checked under SpecStrategy *)

\* C15: the decision of the last SignalEvent is stored as current_signal,
\* and a Strategy.update_position moves the generator as that decision
\* says, so that the generator changes state on confirmation only.
C15_Claim ==
    /\ signal_event # <<>> => current_signal = signal_event[1].signal
    /\ confirmed # <<>> =>
          confirmed[1].after = UpdatePosition(confirmed[1].before,
                                              confirmed[1].emitted)

\* C16: the signal model is fitted at most once, no fit is attempted once
\* one has completed, and every estimate comes after a completed fit.
C16_FitOnceBeforeEstimate ==
    /\ \A i, j \in 1..Len(model_calls) :
          (i < j /\ model_calls[i] = "fit")
             => model_calls[j] \notin {"fit", "fit_raised"}
    /\ \A j \in 1..Len(model_calls) :
          model_calls[j] = "estimate"
             => \E i \in 1..(j - 1) : model_calls[i] = "fit"

\* A first event whose fit raised, a second one that fitted and estimated,
\* a third one that only estimated.
C16_Witness ==
    /\ is_fitted
    /\ model_calls = <<"fit_raised", "fit", "estimate", "estimate">>


--------------------------------------------------------------------------
(* HOLD signals: checked under SpecTick *)

\* C17: the step in which publish_orders handles a HOLD signal ends the
\* call and changes nothing else: no OrderCreatedEvent, no sizing, no call
\* of the client, and account_size, the Event, open_positions and
\* closed_positions as before.
C17_Step ==
    (pcP = "ready" /\ pcP' # "ready" /\ signal = "HOLD") =>
        /\ pcP' = "done"
        /\ UNCHANGED <<account_size, account_updated, written_at, sizings,
                       balance, pcU, pcS, published, positions,
                       open_positions, closed_positions>>

C17_HoldIsNoOp == [][C17_Step]_vars

\* publish_orders has returned on a HOLD signal and the Event that the
\* tick's update_account_size set is still set.
C17_Witness ==
    /\ signal = "HOLD" /\ pcP = "done" /\ pcU = "done"
    /\ account_updated /\ written_at = tick /\ tick >= 1


--------------------------------------------------------------------------
(* Exit orders: checked under SpecExit *)

\* C18: the orders built on EXIT hold, for every item of open_positions
\* of size other than 0, exactly one order on its symbol, a SELL of size
\* when size > 0 and a BUY of -size when size < 0, and no other order.
C18_OneClosingOrderPerPosition ==
    exit_orders # <<>> =>
      LET orders == exit_orders[1]
          OrdersOn(sym) == {i \in 1..Len(orders) : orders[i].symbol = sym}
      IN  /\ \A i \in 1..Len(orders) : orders[i].symbol \in DOMAIN open_positions
          /\ \A sym \in DOMAIN open_positions :
                LET size == positions[open_positions[sym]].size
                IN  /\ Cardinality(OrdersOn(sym)) = (IF size = 0 THEN 0 ELSE 1)
                    /\ \A i \in OrdersOn(sym) :
                          /\ size > 0 => (orders[i].side = "SELL"
                                            /\ orders[i].quantity = size)
                          /\ size < 0 => (orders[i].side = "BUY"
                                            /\ orders[i].quantity = -size)

\* Exit orders of a portfolio with one long and one short position.
C18_Witness ==
    /\ exit_orders # <<>> /\ Len(exit_orders[1]) = 2
    /\ \E i, j \in 1..2 : /\ exit_orders[1][i].side = "SELL"
                          /\ exit_orders[1][j].side = "BUY"
                          /\ exit_orders[1][j].quantity = 2

----------------------------------------------------------------------------------------------------------------------
\* The side the order of a leg must have: BUY when the sign of the hedge
\* ratio agrees with the direction of the entry, SELL when it opposes it.
EntryTable(hedge_ratio, decision) ==
    IF (hedge_ratio > 0 /\ decision = "LONG") \/ (hedge_ratio < 0 /\ decision = "SHORT")
    THEN "BUY" ELSE "SELL"

\* A leg that get_order_side rejects.
RejectedLeg(i) ==
    \/ entry_in.hedge_ratio[i].hedge_ratio = 0
    \/ entry_in.signal \in {"HOLD", "EXIT"}

\* C19: get_order_side gives BUY for (positive, LONG) and (negative, SHORT),
\* SELL for (positive, SHORT) and (negative, LONG), and raises for a hedge
\* ratio of zero and for a HOLD or EXIT decision: a call of
\* _prepare_entry_orders ends in ValueError exactly when some leg is
\* rejected, and otherwise returns one order per leg with the side of the
\* table.
C19_OrderSideTable ==
    entry_out # <<>> =>
        LET out == entry_out[1]
            legs == entry_in.hedge_ratio
        IN  /\ (out.err = "ValueError") <=> (\E i \in 1..Len(legs) : RejectedLeg(i))
            /\ out.err \in {"none", "ValueError"}
            /\ out.err = "none" =>
                  /\ Len(out.orders) = Len(legs)
                  /\ \A i \in 1..Len(legs) :
                        out.orders[i].side =
                            EntryTable(legs[i].hedge_ratio, entry_in.signal)
            /\ out.err = "ValueError" => out.orders = <<>>

\* A SHORT entry on a basket with a positive and a negative leg has been
\* prepared: the positive leg is sold and the negative one bought.
C19_Witness ==
    /\ entry_out # <<>>
    /\ entry_in.signal = "SHORT"
    /\ Len(entry_in.hedge_ratio) = 2
    /\ entry_in.hedge_ratio[1].hedge_ratio > 0
    /\ entry_in.hedge_ratio[2].hedge_ratio < 0
    /\ entry_out[1].err = "none"
    /\ entry_out[1].orders[1].side = "SELL"
    /\ entry_out[1].orders[2].side = "BUY"

--------------------------------------------------------------------------
\* m is the largest multiple of step that does not exceed x.
LargestMultipleBelow(m, x, step) ==
    /\ \E k \in 0..x : m = k * step
    /\ m <= x
    /\ m + step > x

\* C20: for every order that filter_order accepts, the returned quantity is
\* the largest multiple of the lot-size step not above the requested
\* quantity, and a given limit price is the largest multiple of the tick
\* size not above the requested price; neither is rounded up.
C20_RoundedDownToStep ==
    \A i \in 1..Len(flt) :
        flt[i].pc = "done" =>
            LET f == SymbolFilters(flt[i].order.symbol)
            IN  /\ LargestMultipleBelow(flt[i].result.quantity,
                                        flt[i].order.quantity, f.step_size)
                /\ flt[i].order.price # 0 =>
                      LargestMultipleBelow(flt[i].result.price,
                                           flt[i].order.price, f.tick_size)
                /\ flt[i].order.price = 0 => flt[i].result.price = 0

\* An accepted limit order whose quantity and price were both off the grid:
\* 3 at 5 on a symbol with step 2 and tick 2 is returned as 2 at 4.
C20_Witness ==
    \E i \in 1..Len(flt) :
        /\ flt[i].pc = "done"
        /\ flt[i].order.quantity = 3 /\ flt[i].result.quantity = 2
        /\ flt[i].order.price = 5 /\ flt[i].result.price = 4

--------------------------------------------------------------------------
\* The price the notional of a finished filter_order call is valued at
\* according to the statement: the order's own rounded price, or the
\* exchange's average price when the order has none (price 0 is None).
StatedValuation(t) ==
    IF t.order.price # 0 THEN RoundStepSize(t.order.price,
                                            SymbolFilters(t.order.symbol).tick_size)
    ELSE t.avg_price

\* C21: filter_order rejects an order of an untracked symbol, fails with the
\* minimum-quantity condition when the rounded quantity is below the
\* minimum lot, fails with the minimum-notional condition when price times
\* rounded quantity is below the minimum notional (the exchange's average
\* price standing in when the order has no price), and returns an order
\* only when none of the three holds.
C21_Claim ==
    \A i \in 1..Len(flt) :
        LET t == flt[i]
            f == SymbolFilters(t.order.symbol)
            q == RoundStepSize(t.order.quantity, f.step_size)
        IN  /\ t.pc = "done" =>
                  /\ t.order.symbol \in symbols
                  /\ q >= f.min_qty
                  /\ StatedValuation(t) * q >= f.min_notional
            /\ (t.pc = "failed" /\ t.order.symbol \notin symbols) => t.err = "ValueError"
            /\ (t.pc = "failed" /\ t.order.symbol \in symbols /\ q < f.min_qty)
                  => t.err = "BinanceOrderMinAmountException"
            /\ (t.pc = "failed" /\ t.order.symbol \in symbols /\ q >= f.min_qty
                  /\ t.err # "BinanceAPIException")
                  => (t.err = "BinanceOrderMinTotalException"
                      /\ StatedValuation(t) * q < f.min_notional)

--------------------------------------------------------------------------
\* A step in which a leverage_sizing call ends: publish_orders, handling an
\* entry signal, passes the wait on the Event and either raises or goes on
\* to build the orders.
SizingEnds ==
    /\ signal \in {"LONG", "SHORT"}
    /\ pcP \in {"ready", "woken"}
    /\ pcP' \in {"failed", "ordering"}

C22_Step ==
    SizingEnds =>
        /\ (pcP' = "failed") <=> (account_size = None)
        /\ pcP' = "ordering" => written_at = tick

\* C22: leverage_sizing waits for the most recent account-size update,
\* fails if the account size was never established, and returns a size
\* only when an account size is set: a call that returns has read the
\* account size written during the tick being processed, and a call fails
\* exactly when account_size is unset.
C22_Claim == [][C22_Step]_vars

--------------------------------------------------------------------------
(* Order executor: checked under SpecExec *)

\* C23: execute_order on an event carrying zero orders fails with an
\* error, submits nothing to the exchange and publishes no
\* TransactionClosedEvent.
C23_EmptyOrdersRejected ==
    (ex.pc # "idle" /\ ex.orders = <<>>)
        => /\ ex.pc = "raised" /\ ex.err = "ValueError"
           /\ sub = <<>>
           /\ tce = <<>>

\* execute_order was called with an empty order list.
C23_Witness == ex.pc = "raised" /\ ex.orders = <<>> /\ ex.err = "ValueError"

\* C24: for every batch execute_order completes, exactly one
\* TransactionClosedEvent is published per submitted order, carrying that
\* order's transaction (its symbol, side and the fills of its response),
\* with position_direction LONG for a BUY order and SHORT for a SELL order.
C24_OneClosedEventPerOrder ==
    ex.pc = "returned" =>
        /\ Len(tce) = Len(ex.orders)
        /\ \A i \in 1..Len(ex.orders) :
              /\ sub[i].pc = "answered"
              /\ tce[i].transaction.order.symbol = ex.orders[i].symbol
              /\ tce[i].transaction.order.side = ex.orders[i].side
              /\ tce[i].transaction.fills = sub[i].response[1].fills
              /\ tce[i].transaction.fills # <<>>
              /\ (ex.orders[i].side = "BUY") => tce[i].position_direction = "LONG"
              /\ (ex.orders[i].side = "SELL") => tce[i].position_direction = "SHORT"

\* A completed batch of a BUY and a SELL order.
C24_Witness ==
    /\ ex.pc = "returned" /\ Len(ex.orders) = 2
    /\ ex.orders[1].side = "BUY" /\ ex.orders[2].side = "SELL"
    /\ tce[1].position_direction = "LONG" /\ tce[2].position_direction = "SHORT"

--------------------------------------------------------------------------
(* Transaction construction: checked under SpecTxn *)

\* C25: every Transaction that is successfully constructed has at least
\* one fill and the symbol of every one of its fills equals the symbol of
\* its order; construction fails otherwise.
C25_Claim ==
    txn_out # <<>> =>
        ((txn_out[1] = "none") <=>
            /\ txn_in.is_list
            /\ Len(txn_in.fills) >= 1
            /\ \A i \in 1..Len(txn_in.fills) :
                  txn_in.fills[i].symbol = txn_in.order.symbol)

--------------------------------------------------------------------------
(* Tracked symbols: checked under SpecAdd *)

\* The last add_symbol call was given a Symbol, or a name the exchange
\* info resolves.
AddedSymbol ==
    /\ add_call # <<>>
    /\ \/ add_call[1].arg.kind = "Symbol"
       \/ add_call[1].arg.kind = "str" /\ add_call[1].arg.name \in SymbolNames

\* C26: add_symbol fails when a symbol with the same name is already
\* tracked, whatever its other fields are, and leaves the tracked set
\* unchanged; otherwise it adds exactly that symbol.
C26_AddSymbolByName ==
    AddedSymbol =>
        LET c == add_call[1]
            sym == [name |-> c.arg.name, fields |-> c.arg.fields]
        IN  IF \E t \in c.before : t.name = c.arg.name
              THEN c.err = "ValueError" /\ symbol_set = c.before
              ELSE c.err = "none" /\ symbol_set = c.before \cup {sym}

\* A Symbol was refused because one of the same name and other fields was
\* already tracked.
C26_Witness ==
    /\ add_call # <<>> /\ add_call[1].arg.kind = "Symbol"
    /\ add_call[1].err = "ValueError"
    /\ \E t \in add_call[1].before :
          t.name = add_call[1].arg.name /\ t.fields # add_call[1].arg.fields

--------------------------------------------------------------------------
(* The backtest command: checked under SpecCli *)

\* C27: on every path on which the exchange client was created, the
\* client connection is closed before the command exits, and any failure
\* ends the command with a non-zero exit status.
C27_Claim ==
    cli.pc = "exited" =>
        /\ conn # "open"
        /\ cli.failed => cli.exit # <<0>>

--------------------------------------------------------------------------
(* Position.update_position: checked under SpecPobj *)

\* C28: when Position.update_position rejects a transaction whose symbol
\* differs from the position's symbol, the position's
\* transaction_history, position_direction, entry_time, size and
\* entry_price are all the same as before the call.
C28_Claim ==
    (pcall # <<>> /\ pcall[1].ev.transaction.order.symbol # pcall[1].before.symbol) =>
        LET b == pcall[1].before
        IN  /\ pcall[1].err = "ValueError"
            /\ pobj.transaction_history = b.transaction_history
            /\ pobj.has_direction = b.has_direction
            /\ pobj.position_direction = b.position_direction
            /\ pobj.entry_time = b.entry_time
            /\ pobj.size = b.size
            /\ pobj.entry_price = b.entry_price

--------------------------------------------------------------------------
(* PositionEvents: checked under Spec *)

\* Handler task t of the batch has applied its transaction to a position:
\* it went on to publish, and at most fails later, when moving the position.
Applied(t) == t.pc \in {"awaiting", "done"} \/ (t.pc = "failed" /\ t.err = "KeyError")

\* C29: Portfolio.update_position publishes exactly one PositionEvent for
\* every transaction it successfully applies, after the mutation and
\* carrying that position, and none when applying the transaction fails;
\* the PositionEvent of a closing transaction shows is_closed = TRUE.
C29_OnePositionEventPerTransaction ==
    \A i \in 1..Len(upd) :
        LET t == upd[i]
            tx == t.ev.transaction
        IN  /\ Applied(t) =>
                  /\ Len(t.pe) = 1
                  /\ t.pe[1].position.symbol = tx.order.symbol
                  /\ t.pe[1].position.transaction_history # <<>>
                  /\ t.pe[1].position.transaction_history[
                         Len(t.pe[1].position.transaction_history)] = tx
                  /\ t.pe[1].position_id \in DOMAIN positions
                  /\ \E k \in 1..Len(positions[t.pe[1].position_id].transaction_history) :
                        positions[t.pe[1].position_id].transaction_history[k] = tx
                  /\ t.pe[1].position.position_direction # t.ev.position_direction
                        => t.pe[1].position.is_closed
            /\ ~Applied(t) => t.pe = <<>>

\* A closing transaction was applied and its PositionEvent, which shows the
\* position closed, went to the storage subscriber.
C29_Witness ==
    \E i \in 1..Len(upd) :
        /\ upd[i].pc = "done" /\ storage
        /\ Len(upd[i].pe) = 1
        /\ upd[i].pe[1].position.is_closed
        /\ Len(upd[i].pe[1].position.transaction_history) = 2

--------------------------------------------------------------------------
(* Mock balances: checked under SpecMock *)

\* The entry of the asset of the last call before the call (an unknown
\* asset starts at free = 0, borrowed = 0) and after it.
CallBefore ==
    IF mock_call[1].asset \in DOMAIN mock_call[1].before
      THEN mock_call[1].before[mock_call[1].asset]
      ELSE [free |-> 0, locked |-> 0, borrowed |-> 0, interest |-> 0]
CallAfter == asset_balance[mock_call[1].asset]

\* C30: pay(asset, a) with free < a sets free to 0 and raises borrowed by
\* exactly a - free, and with free >= a lowers free by a and leaves
\* borrowed unchanged; gain(asset, a) with borrowed > 0 first lowers
\* borrowed by min(a, borrowed) and adds only the remainder to free; an
\* unknown asset starts at free = 0 and borrowed = 0.
C30_PayBorrowsGainRepays ==
    mock_call # <<>> =>
        LET a == mock_call[1].amount
            b == CallBefore
            repaid == IF a <= b.borrowed THEN a ELSE b.borrowed
        IN  /\ mock_call[1].asset \in DOMAIN asset_balance
            /\ (mock_call[1].op = "pay" /\ b.free < a) =>
                  (CallAfter.free = 0 /\ CallAfter.borrowed = b.borrowed + (a - b.free))
            /\ (mock_call[1].op = "pay" /\ b.free >= a) =>
                  (CallAfter.free = b.free - a /\ CallAfter.borrowed = b.borrowed)
            /\ (mock_call[1].op = "gain" /\ b.borrowed > 0) =>
                  (CallAfter.borrowed = b.borrowed - repaid
                   /\ CallAfter.free = b.free + (a - repaid))
            /\ (mock_call[1].op = "gain" /\ b.borrowed = 0) =>
                  (CallAfter.free = b.free + a /\ CallAfter.borrowed = 0)
            /\ \A x \in DOMAIN mock_call[1].before :
                  x # mock_call[1].asset => asset_balance[x] = mock_call[1].before[x]

\* A payment larger than a positive free balance: part paid, part borrowed.
C30_Witness ==
    /\ mock_call # <<>> /\ mock_call[1].op = "pay"
    /\ CallBefore.free > 0 /\ CallBefore.free < mock_call[1].amount
    /\ CallAfter.free = 0 /\ CallAfter.borrowed > CallBefore.borrowed

--------------------------------------------------------------------------
(* Persisted-transaction cursor: checked under SpecSave *)

\* C31: for any interleaving of Position.update_position and
\* TradingStorage.save_position calls on one position, the cursor stays
\* between 0 and the length of transaction_history, what was handed to
\* storage is exactly the first cursor transactions of the history, each
\* once and in history order, and a save that reached the transactions
\* handed every transaction the history held at that moment.
C31_CursorWithinHistory ==
    /\ pobj.save_transaction_count \in 0..Len(pobj.transaction_history)
    /\ handed = SubSeq(pobj.transaction_history, 1, pobj.save_transaction_count)
    /\ \A i, j \in 1..Len(handed) : handed[i] = handed[j] => i = j
    /\ (save_call # <<>> /\ save_call[1].outcome # "error_before") =>
          pobj.save_transaction_count >= save_call[1].n

\* A second save that found an advanced cursor and handed only what was new.
C31_Witness ==
    /\ save_call # <<>> /\ save_call[1].outcome = "ok"
    /\ save_call[1].cursor >= 1
    /\ save_call[1].n > save_call[1].cursor
    /\ Len(handed) = save_call[1].n

\* C32: after any sequence of gain and pay calls with non-negative
\* amounts, every asset has free >= 0 and borrowed >= 0, never both
\* free > 0 and borrowed > 0, free - borrowed equals the amounts gained minus
\* the amounts paid, and locked and interest stay 0.
C32_BalanceInvariant ==
    \A a \in DOMAIN asset_balance :
        /\ asset_balance[a].free >= 0
        /\ asset_balance[a].borrowed >= 0
        /\ ~(asset_balance[a].free > 0 /\ asset_balance[a].borrowed > 0)
        /\ asset_balance[a].free - asset_balance[a].borrowed = net[a]
        /\ asset_balance[a].locked = 0
        /\ asset_balance[a].interest = 0

\* A gain smaller than the loan: part of the debt remains and free stays 0.
C32_Witness ==
    /\ mock_call # <<>> /\ mock_call[1].op = "gain" /\ mock_call[1].amount > 0
    /\ CallBefore.borrowed > mock_call[1].amount
    /\ CallAfter.borrowed > 0 /\ CallAfter.free = 0
    /\ net[mock_call[1].asset] < 0

--------------------------------------------------------------------------
(* Published order batches: checked under SpecOrders *)

\* C33: every OrderCreatedEvent published by Portfolio.publish_orders
\* carries at least one order; an order list that _prepare_exit_orders or
\* _prepare_entry_orders returned empty publishes no OrderCreatedEvent.
C33_Claim ==
    \A i \in 1..Len(published) : Len(published[i].orders) >= 1

--------------------------------------------------------------------------
(* Generator state and open positions: checked under SpecWire *)

\* C34: whenever a market-data tick has been fully processed, the
\* generator is IDLE exactly when the portfolio has no open positions, and
\* is LONG or SHORT exactly when the last confirmed entry signal was LONG
\* or SHORT.
C34_Claim ==
    (wire.pc = "idle" /\ signal_event # <<>>) =>
        /\ (position = "IDLE") <=> (DOMAIN open_positions = {})
        /\ (position # "IDLE") => (position = wire.last_entry)

--------------------------------------------------------------------------
(* Fills of a partly failed batch: checked under SpecExec *)

\* The exchange accepted and filled the i-th order of the batch.
FilledAtExchange(i) ==
    /\ sub[i].pc = "answered"
    /\ sub[i].response[1].kind = "ok"
    /\ sub[i].response[1].fills # <<>>

\* C35: once execute_order has ended, every order of the batch that the
\* exchange accepted and filled has its TransactionClosedEvent published,
\* also when another order of the batch failed at the exchange or came back
\* without fills.
C35_Claim ==
    ex.pc \in {"returned", "raised"} =>
        \A i \in 1..Len(sub) :
            FilledAtExchange(i) =>
                /\ i <= Len(tce)
                /\ tce[i].transaction.fills = sub[i].response[1].fills

--------------------------------------------------------------------------
(* Signal model: checked under SpecJm *)

\* C36: after any sequence of fit and estimate calls, estimate computes the
\* spread with the hedge-ratio vector of the most recent fit, the ratios
\* get_hedge_ratio returns.
C36_Claim ==
    (jm_call # <<>> /\ jm_call[1].op = "estimate" /\ jm_call[1].outcome = "ok") =>
        Some(jm_call[1].vector[1]) = jm.hedge_ratio

--------------------------------------------------------------------------
(* Event order within a tick: checked under SpecLoop *)

EventRank(e) ==
    IF e = "MarketDataEvent" THEN 0
    ELSE IF e = "SignalEvent" THEN 1
    ELSE IF e = "OrderCreatedEvent" THEN 2
    ELSE IF e = "TransactionClosedEvent" THEN 3
    ELSE 4

\* C37: in a run without failures the events of one tick occur in the
\* order SignalEvent, OrderCreatedEvent, TransactionClosedEvent,
\* PositionEvent, and when the driver publishes the next MarketDataEvent
\* every task the earlier tick started has completed.
C37_EventOrderAndDriverWaits ==
    /\ \A i, j \in 1..Len(event_log) :
          i < j => EventRank(event_log[i]) <= EventRank(event_log[j])
    /\ left_running = 0
    /\ driver # "awaiting" => \A j \in 1..Len(loop_tasks) : loop_tasks[j].pc = "done"

\* The loop went on to a further tick after a tick that executed two orders.
C37_Witness ==
    /\ loop_tick >= 2 /\ driver = "idle"
    /\ Len(SelectSeq(event_log, LAMBDA e : e = "PositionEvent")) = 2
    /\ Len(SelectSeq(event_log, LAMBDA e : e = "TransactionClosedEvent")) = 2
    /\ \E j \in 1..Len(loop_tasks) : loop_tasks[j].kind = "execute_order"

--------------------------------------------------------------------------
(* Mock data windows: checked under SpecData *)

\* Every symbol has len_data rows, the case the statement is about.
EvenData == \A sym \in DOMAIN mock_data : mock_data[sym] = len_data

GenEnded == mock_gen.pc \in {"exhausted", "raised"}

WindowsAsStated ==
    \A w \in 1..Len(mock_gen.yielded) : \A sym \in DOMAIN mock_data :
        mock_gen.yielded[w][sym] =
            [k \in 1..mock_gen.limit |-> mock_gen.p0 + w - mock_gen.limit + k]

\* C38 as stated: with L <= p the generator terminates after exactly
\* max(n - p, 0) windows of the L most recent rows and the pointer never
\* exceeds n; with p < L it fails and yields nothing.
C38_Claim ==
    EvenData =>
        IF mock_gen.p0 < mock_gen.limit
          THEN mock_gen.pc \in {"created", "raised"} /\ mock_gen.yielded = <<>>
          ELSE /\ mock_gen.pc # "raised"
               /\ WindowsAsStated
               /\ current_pt <= len_data
               /\ mock_gen.pc = "exhausted" =>
                     Len(mock_gen.yielded) = Max(len_data - mock_gen.p0, 0)

\* C38, amended: with mock data loaded and L <= p the generator ends
\* normally after exactly max(n - p, 0) windows of the L most recent rows,
\* and it never advances the pointer beyond n: the pointer stays within
\* max(n, p) and ends there; with p < L, or with no mock data loaded, it
\* fails at the first next() and yields nothing.
C38_WindowsAndPointer ==
    EvenData =>
        IF mock_gen.p0 < mock_gen.limit \/ DOMAIN mock_data = {}
          THEN /\ mock_gen.pc \in {"created", "raised"}
               /\ mock_gen.yielded = <<>>
               /\ current_pt = mock_gen.p0
          ELSE /\ mock_gen.pc # "raised"
               /\ WindowsAsStated
               /\ current_pt = mock_gen.p0 + Len(mock_gen.yielded)
               /\ current_pt <= Max(len_data, mock_gen.p0)
               /\ mock_gen.pc = "exhausted" =>
                     /\ Len(mock_gen.yielded) = Max(len_data - mock_gen.p0, 0)
                     /\ current_pt = Max(len_data, mock_gen.p0)

\* A generator that ran from pointer 1 with limit 1 through three rows.
C38_Witness ==
    /\ mock_gen.pc = "exhausted" /\ DOMAIN mock_data # {} /\ EvenData
    /\ mock_gen.limit >= 1 /\ mock_gen.p0 = mock_gen.limit
    /\ Len(mock_gen.yielded) >= 2
    /\ current_pt = len_data

--------------------------------------------------------------------------
(* Release of the account-size wait: checked under SpecTickFair *)

EntrySignal == signal \in {"LONG", "SHORT"}

--------------------------------------------------------------------------
(* Long-only generator: checked under SpecSignal *)

\* C40: a long_only generator never emits SHORT, and as long as every
\* update_position call was fed the signal emitted just before it, its
\* state is never SHORT.
C40_LongOnlyNeverShort ==
    long_only =>
        /\ emitted # <<>> => emitted[1].signal # "SHORT"
        /\ feedback =>
              /\ position # "SHORT"
              /\ \A i \in 1..Len(rounds) :
                    rounds[i].signal # "SHORT" /\ rounds[i].position # "SHORT"

\* A long_only generator, fed its own signals, that held in IDLE on a
\* z-score above the entry threshold and later went LONG.
C40_Witness ==
    /\ long_only /\ feedback /\ position = "LONG"
    /\ \E i \in 1..Len(rounds) :
          /\ rounds[i].zscore > entry_threshold
          /\ rounds[i].signal = "HOLD" /\ rounds[i].position = "IDLE"

====
